---- MODULE Spec2Model ----
(***************************************************************************)
(* Model of linearstories: the markdown write-back editor (writeBackIds),  *)
(* the markdown parser (parseMarkdownFile) and the importer                *)
(* (importStories / processStory) with its resolver and gateway calls.     *)
(*                                                                         *)
(* Text is modelled lexically: a text is a sequence of tokens.  A token is *)
(* either a single character that the code inspects ("\n", " ") or a word  *)
(* the code only ever compares as a whole ("##", the code-fence mark,     *)
(* "yaml", "linear_id:", a title word, an identifier).  Splitting at       *)
(* newlines, joining, trimming and prefix tests are computed on that       *)
(* sequence as the JavaScript string methods compute them on characters.   *)
(***************************************************************************)
EXTENDS Integers, Sequences, FiniteSets, TLC

(***************************************************************************)
(* Tokens                                                                  *)
(***************************************************************************)
NL == "\n"
SP == " "
HASH2 == "##"
\* the code-fence mark: three backtick characters
TICKS == "'''"
YAML == "yaml"
KEY_ID == "linear_id:"
KEY_URL == "linear_url:"
KEY_PRIORITY == "priority:"
KEY_LABELS == "labels:"
KEY_ESTIMATE == "estimate:"
KEY_ASSIGNEE == "assignee:"
KEY_STATUS == "status:"
KEY_TEAM == "team:"
KEY_PROJECT == "project:"
\* the frontmatter delimiter: three dashes
FM_DELIM == "---"
\* the double quote
QUOTE == "\""

\* A string is a sequence of tokens.  null and undefined are written as the
\* empty string: every nullable string of the program (linearId, linearUrl,
\* assignee, status, team, project) is either null or a non-empty string
\* (extractStringOrNull maps "" to null), and the code tests them only for
\* truthiness.
NULL == <<>>

\* String.prototype.trim strips whitespace and line terminators.
IsWhitespace(c) == c \in {SP, NL}

(***************************************************************************)
(* String primitives used by parser.ts                                     *)
(***************************************************************************)
\* s.startsWith(p)
StartsWith(s, p) ==
    /\ Len(s) >= Len(p)
    /\ SubSeq(s, 1, Len(p)) = p

\* s.slice(n) with a 0-based start n, i.e. s without its first n tokens
DropFirst(s, n) == SubSeq(s, n + 1, Len(s))

RECURSIVE TrimStart(_)
TrimStart(s) ==
    IF s # <<>> /\ IsWhitespace(Head(s)) THEN TrimStart(Tail(s)) ELSE s

RECURSIVE TrimEnd(_)
TrimEnd(s) ==
    IF s # <<>> /\ IsWhitespace(s[Len(s)])
    THEN TrimEnd(SubSeq(s, 1, Len(s) - 1))
    ELSE s

\* s.trim()
Trim(s) == TrimEnd(TrimStart(s))

\* index of the first NL in s at or after position i, or Len(s)+1
RECURSIVE NextNL(_, _)
NextNL(s, i) ==
    IF i > Len(s) THEN i
    ELSE IF s[i] = NL THEN i
    ELSE NextNL(s, i + 1)

\* content.split("\n"): always at least one line; a trailing NL gives a
\* final empty line.
RECURSIVE SplitLines(_)
SplitLines(s) ==
    LET n == NextNL(s, 1) IN
    IF n > Len(s) THEN <<s>>
    ELSE <<SubSeq(s, 1, n - 1)>> \o SplitLines(SubSeq(s, n + 1, Len(s)))

\* lines.join("\n")
RECURSIVE JoinLines(_)
JoinLines(lines) ==
    IF lines = <<>> THEN <<>>
    ELSE IF Len(lines) = 1 THEN lines[1]
    ELSE lines[1] \o <<NL>> \o JoinLines(Tail(lines))

(***************************************************************************)
(* writeBackIds (the selective write-back editor)                          *)
(***************************************************************************)
H2_PREFIX == <<HASH2, SP>>
YAML_OPEN == <<TICKS, YAML>>
YAML_CLOSE == <<TICKS>>

\* line.startsWith("## ")
IsH2(line) == StartsWith(line, H2_PREFIX)

\* line.replace(/^## /, "").trim()
headingTitle(line) ==
    Trim(IF StartsWith(line, H2_PREFIX) THEN DropFirst(line, 2) ELSE line)

\* The Map built from the updates: a later update of a title replaces an
\* earlier one.
updateMap(updates) ==
    [t \in {updates[k].title : k \in DOMAIN updates} |->
        LET last == CHOOSE k \in DOMAIN updates :
                        /\ updates[k].title = t
                        /\ \A j \in DOMAIN updates :
                              updates[j].title = t => j <= k
        IN [linearId |-> updates[last].linearId,
            linearUrl |-> updates[last].linearUrl]]

\* the look-ahead past blank lines: the first index >= i whose line is not
\* blank after trim(), or Len(lines)+1
RECURSIVE lookAheadFrom(_, _)
lookAheadFrom(lines, i) ==
    IF i <= Len(lines) /\ Trim(lines[i]) = <<>>
    THEN lookAheadFrom(lines, i + 1)
    ELSE i

\* where the loop over the YAML block stops: the first index >= i whose
\* line is the closing fence after trim(), or Len(lines)+1
RECURSIVE yamlLoopEnd(_, _)
yamlLoopEnd(lines, i) ==
    IF i <= Len(lines) /\ Trim(lines[i]) # YAML_CLOSE
    THEN yamlLoopEnd(lines, i + 1)
    ELSE i

\* "linear_id: " + update.linearId and "linear_url: " + update.linearUrl
linearIdLine(update) == <<KEY_ID, SP>> \o update.linearId
linearUrlLine(update) == <<KEY_URL, SP>> \o update.linearUrl

\* an iteration that pushes every line of the block as it is
keepYamlLine(yamlLine, update) == yamlLine

\* one iteration of the loop over the lines inside the YAML block
rewriteYamlLine(yamlLine, update) ==
    IF StartsWith(yamlLine, <<KEY_ID>>) THEN linearIdLine(update)
    ELSE IF StartsWith(yamlLine, <<KEY_URL>>) THEN linearUrlLine(update)
    ELSE yamlLine

\* the lines pushed for a YAML block when the two keys are appended whether
\* or not the block holds them
yamlBlockOutputAppending(lines, i, open, end, update) ==
    SubSeq(lines, i, open)
      \o [k \in 1..(end - open - 1) |->
            rewriteYamlLine(lines[open + k], update)]
      \o <<linearIdLine(update), linearUrlLine(update)>>
      \o (IF end <= Len(lines) THEN <<lines[end]>> ELSE <<>>)

\* the lines pushed for a matched story that has a YAML block: the blank
\* lines, the opening fence, the rewritten block, the missing keys and the
\* closing fence (when there is one).  i is the index after the heading,
\* open the index of the opening fence, end the index where the block loop
\* stopped.
yamlBlockOutput(lines, i, open, end, update) ==
    LET inside == [k \in 1..(end - open - 1) |->
                      rewriteYamlLine(lines[open + k], update)]
        foundLinearId == \E k \in (open + 1)..(end - 1) :
                             StartsWith(lines[k], <<KEY_ID>>)
        foundLinearUrl == \E k \in (open + 1)..(end - 1) :
                              /\ ~StartsWith(lines[k], <<KEY_ID>>)
                              /\ StartsWith(lines[k], <<KEY_URL>>)
    IN SubSeq(lines, i, open)
         \o inside
         \o (IF foundLinearId THEN <<>> ELSE <<linearIdLine(update)>>)
         \o (IF foundLinearUrl THEN <<>> ELSE <<linearUrlLine(update)>>)
         \o (IF end <= Len(lines) THEN <<lines[end]>> ELSE <<>>)

\* an inserted block without the separating blank line
insertedYamlBlockWithoutBlank(update) ==
    << YAML_OPEN, linearIdLine(update), linearUrlLine(update), YAML_CLOSE >>

\* the lines pushed for a matched story that has no YAML block
insertedYamlBlock(update) ==
    << <<>>, YAML_OPEN, linearIdLine(update), linearUrlLine(update),
       YAML_CLOSE >>

\* the while loop over the lines; i is the (1-based) index of the next line
RECURSIVE writeBackLoop(_, _, _, _)
writeBackLoop(lines, i, result, umap) ==
    IF i > Len(lines) THEN result
    ELSE
      LET line == lines[i] IN
      IF IsH2(line)
      THEN
        LET currentTitle == headingTitle(line) IN
        IF currentTitle \in DOMAIN umap
        THEN
          LET lookAhead == lookAheadFrom(lines, i + 1) IN
          IF lookAhead <= Len(lines) /\ Trim(lines[lookAhead]) = YAML_OPEN
          THEN
            LET end == yamlLoopEnd(lines, lookAhead + 1) IN
            writeBackLoop(lines,
                          IF end <= Len(lines) THEN end + 1 ELSE end,
                          result \o <<line>>
                             \o yamlBlockOutput(lines, i + 1, lookAhead, end,
                                                umap[currentTitle]),
                          umap)
          ELSE
            writeBackLoop(lines, i + 1,
                          result \o <<line>>
                             \o insertedYamlBlock(umap[currentTitle]),
                          umap)
        ELSE writeBackLoop(lines, i + 1, Append(result, line), umap)
      ELSE writeBackLoop(lines, i + 1, Append(result, line), umap)

\* an editor that always splits and joins, ending the text with one newline
writeBackIdsNormalizing(filePath, content, updates) ==
    JoinLines(writeBackLoop(SplitLines(TrimEnd(content)), 1, <<>>,
                            updateMap(updates))) \o <<NL>>

writeBackIds(filePath, content, updates) ==
    IF Len(updates) = 0 THEN content
    ELSE JoinLines(writeBackLoop(SplitLines(content), 1, <<>>,
                                 updateMap(updates)))

(***************************************************************************)
(* gray-matter, as far as parser.ts relies on it.  YAML is restricted to   *)
(* block mappings of one "key:" or "key: value" entry per line; any other  *)
(* non-blank line, or a key given twice, makes the YAML loader throw.      *)
(***************************************************************************)
YamlKeys == {KEY_ID, KEY_URL, KEY_PRIORITY, KEY_LABELS, KEY_ESTIMATE,
             KEY_ASSIGNEE, KEY_STATUS, KEY_TEAM, KEY_PROJECT}

IsYamlEntry(line) ==
    /\ line # <<>>
    /\ line[1] \in YamlKeys
    /\ Len(line) > 1 => line[2] = SP

\* a scalar that starts with a double quote is a double-quoted scalar: it
\* ends at the next double quote, which has to be its last character
IsYamlScalar(v) ==
    (v # <<>> /\ Head(v) = QUOTE)
      => /\ Len(v) >= 2
         /\ v[Len(v)] = QUOTE
         /\ \A k \in 2..(Len(v) - 1) : v[k] # QUOTE

\* the string a scalar stands for: a double-quoted scalar without its quotes
yamlScalar(v) ==
    IF Len(v) >= 2 /\ Head(v) = QUOTE /\ v[Len(v)] = QUOTE
    THEN SubSeq(v, 2, Len(v) - 1)
    ELSE v

\* data[key] of the loaded mapping: the trimmed value of the entry of that
\* key, NULL when the key is absent or its value is empty
yamlGet(lines, key) ==
    IF \E k \in DOMAIN lines : IsYamlEntry(lines[k]) /\ lines[k][1] = key
    THEN LET k == CHOOSE k \in DOMAIN lines :
                      IsYamlEntry(lines[k]) /\ lines[k][1] = key
         IN yamlScalar(Trim(DropFirst(lines[k], 1)))
    ELSE NULL

yamlLoads(lines) ==
    /\ \A k \in DOMAIN lines : Trim(lines[k]) = <<>> \/ IsYamlEntry(lines[k])
    /\ \A k \in DOMAIN lines :
          IsYamlEntry(lines[k]) => IsYamlScalar(Trim(DropFirst(lines[k], 1)))
    /\ \A j, k \in DOMAIN lines :
          (/\ j # k
           /\ IsYamlEntry(lines[j])
           /\ IsYamlEntry(lines[k])) => lines[j][1] # lines[k][1]

\* str.indexOf("\n---"): the first index i >= from with s[i] = NL and
\* s[i+1] = FM_DELIM, or 0
RECURSIVE closeIndexFrom(_, _)
closeIndexFrom(s, from) ==
    IF from >= Len(s) THEN 0
    ELSE IF s[from] = NL /\ s[from + 1] = FM_DELIM THEN from
    ELSE closeIndexFrom(s, from + 1)

\* matter(content): [ok, lines (of the frontmatter block), content]
matter(content) ==
    IF ~StartsWith(content, <<FM_DELIM>>)
    THEN [ok |-> TRUE, lines |-> <<>>, content |-> content]
    ELSE
      LET str == DropFirst(content, 1)
          language == SubSeq(str, 1, NextNL(str, 1) - 1)
          closeIndex == closeIndexFrom(str, 1)
          block == IF closeIndex = 0 THEN str
                   ELSE SubSeq(str, 1, closeIndex - 1)
          after == IF closeIndex = 0 THEN <<>>
                   ELSE DropFirst(str, closeIndex + 1)
          rest == IF after # <<>> /\ Head(after) = NL THEN Tail(after)
                  ELSE after
      IN [ok |-> Trim(language) = <<>> /\ yamlLoads(SplitLines(block)),
          lines |-> SplitLines(block),
          content |-> rest]

(***************************************************************************)
(* parseMarkdownFile                                                       *)
(***************************************************************************)
\* extractStringOrNull
extractStringOrNull(value) == IF value = <<>> THEN NULL ELSE value

\* the tokens Number() reads as a number
NumberTokens == {"0", "1", "2", "3", "4", "5", "8"}

\* extractNumberOrNull: a value that is not a number gives null
extractNumberOrNull(value) ==
    IF Len(value) = 1 /\ value[1] \in NumberTokens THEN value ELSE NULL

\* s.split(",").map(trim)
RECURSIVE splitComma(_)
splitComma(s) ==
    IF \E k \in DOMAIN s : s[k] = ","
    THEN LET k == CHOOSE k \in DOMAIN s :
                      s[k] = "," /\ \A j \in 1..(k - 1) : s[j] # ","
         IN <<Trim(SubSeq(s, 1, k - 1))>> \o splitComma(DropFirst(s, k))
    ELSE <<Trim(s)>>

\* extractLabels: the value is a YAML flow sequence ([a, b]: an array) or a
\* plain string that is split at commas
extractLabels(value) ==
    IF value = NULL THEN <<>>
    ELSE IF Head(value) = "[" /\ value[Len(value)] = "]"
         THEN IF Trim(SubSeq(value, 2, Len(value) - 1)) = <<>> THEN <<>>
              ELSE splitComma(SubSeq(value, 2, Len(value) - 1))
         ELSE splitComma(value)

\* s.indexOf(p, from): the first index i >= from where s continues with p,
\* or 0
RECURSIVE indexOfFrom(_, _, _)
indexOfFrom(s, p, from) ==
    IF from + Len(p) - 1 > Len(s) THEN 0
    ELSE IF SubSeq(s, from, from + Len(p) - 1) = p THEN from
    ELSE indexOfFrom(s, p, from + 1)

\* restContent.match(yamlBlockRegex), the regular expression being the
\* opening mark with its tag and a newline, a lazy run of any characters
\* and the closing mark: [found, open, close] with open the index of the
\* opening mark and close the index of the closing mark of the first match
yamlBlockMatch(restContent) ==
    LET open == indexOfFrom(restContent, <<TICKS, YAML, NL>>, 1)
        close == IF open = 0 THEN 0
                 ELSE indexOfFrom(restContent, <<TICKS>>, open + 3)
    IN [found |-> open # 0 /\ close # 0, open |-> open, close |-> close]

\* the StoryData object built at the end of parseStorySection
storyData(title, metadata, body, frontmatter) ==
    [title |-> title,
     linearId |-> extractStringOrNull(yamlGet(metadata, KEY_ID)),
     linearUrl |-> extractStringOrNull(yamlGet(metadata, KEY_URL)),
     priority |-> extractNumberOrNull(yamlGet(metadata, KEY_PRIORITY)),
     labels |-> extractLabels(yamlGet(metadata, KEY_LABELS)),
     estimate |-> extractNumberOrNull(yamlGet(metadata, KEY_ESTIMATE)),
     assignee |-> extractStringOrNull(yamlGet(metadata, KEY_ASSIGNEE)),
     status |-> extractStringOrNull(yamlGet(metadata, KEY_STATUS)),
     body |-> body,
     project |-> frontmatter.project,
     team |-> frontmatter.team]

\* the if (yamlMatch) branch of parseStorySection, parsed being what matter
\* made of the block's content, and the result: [ok, story]
parseYamlBlock(title, restContent, yamlMatch, parsed, frontmatter) ==
    [ok |-> yamlMatch.found => parsed.ok,
     story |-> storyData(title,
                         IF yamlMatch.found THEN parsed.lines ELSE <<>>,
                         IF yamlMatch.found
                         THEN Trim(DropFirst(restContent, yamlMatch.close))
                         ELSE Trim(restContent),
                         frontmatter)]

\* parseStorySection from restContent.match on
parseRestContent(title, restContent, yamlMatch, frontmatter) ==
    parseYamlBlock(title, restContent, yamlMatch,
                   matter(<<FM_DELIM, NL>>
                            \o SubSeq(restContent, yamlMatch.open + 3,
                                      yamlMatch.close - 1)
                            \o <<FM_DELIM, NL>>),
                   frontmatter)

\* the title and the rest of a section, given its lines
parseSectionLines(lines, restContent, frontmatter) ==
    parseRestContent(headingTitle(lines[1]), restContent,
                     yamlBlockMatch(restContent), frontmatter)

\* parseStorySection(section, frontmatter): [ok, story]
parseStorySection(section, frontmatter) ==
    parseSectionLines(SplitLines(section),
                      JoinLines(Tail(SplitLines(section))), frontmatter)

\* bodyContent.split(/^(?=## )/m): the text is cut before every line that
\* starts with "## ", except at position 0
RECURSIVE groupSections(_, _)
groupSections(lines, acc) ==
    IF lines = <<>> THEN acc
    ELSE IF acc = <<>> \/ IsH2(Head(lines))
         THEN groupSections(Tail(lines), Append(acc, <<Head(lines)>>))
         ELSE groupSections(Tail(lines),
                [acc EXCEPT ![Len(acc)] = Append(@, Head(lines))])

splitSections(bodyContent) ==
    LET groups == groupSections(SplitLines(bodyContent), <<>>)
    IN [k \in DOMAIN groups |->
          IF k < Len(groups) THEN JoinLines(groups[k]) \o <<NL>>
          ELSE JoinLines(groups[k])]

\* the sections kept by parseMarkdownFile's loop: trimmed, and starting
\* with "## "
storySections(sections) ==
    SelectSeq([k \in DOMAIN sections |-> Trim(sections[k])],
              LAMBDA t : StartsWith(t, H2_PREFIX))

\* the result of parseMarkdownFile: [error, frontmatter, stories, filePath];
\* error is "none", "ParseError" (no H2 heading) or "Error" (thrown by the
\* YAML loader)
parsedFile(error, frontmatter, parsedStories, filePath) ==
    [error |-> error,
     frontmatter |-> frontmatter,
     stories |-> IF error = "none"
                 THEN [k \in DOMAIN parsedStories |-> parsedStories[k].story]
                 ELSE <<>>,
     filePath |-> filePath]

\* parseMarkdownFile after the frontmatter has been read
parseBody(fmOk, frontmatter, bodyLines, parsedStories, filePath) ==
    parsedFile(IF ~fmOk THEN "Error"
               ELSE IF ~\E k \in DOMAIN bodyLines : IsH2(bodyLines[k])
                    THEN "ParseError"
               ELSE IF \E k \in DOMAIN parsedStories : ~parsedStories[k].ok
                    THEN "Error"
                    ELSE "none",
               frontmatter, parsedStories, filePath)

\* the loop over the sections
parseSections(kept, frontmatter) ==
    [k \in DOMAIN kept |-> parseStorySection(kept[k], frontmatter)]

\* parseMarkdownFile given what matter made of the content
parseMatter(fm, frontmatter, filePath) ==
    parseBody(fm.ok, frontmatter, SplitLines(fm.content),
              parseSections(storySections(splitSections(fm.content)),
                            frontmatter),
              filePath)

\* the frontmatter object of parseMarkdownFile
frontmatterOf(fm) ==
    [project |-> yamlGet(fm.lines, KEY_PROJECT),
     team |-> yamlGet(fm.lines, KEY_TEAM)]

\* parseMarkdownFile(content, filePath)
parseFrontmatter(fm, filePath) == parseMatter(fm, frontmatterOf(fm), filePath)

parseMarkdownFile(content, filePath) ==
    parseFrontmatter(matter(content), filePath)

(***************************************************************************)
(* serializeStories                                                        *)
(***************************************************************************)
\* one metadata line, or none when the field is null
yamlField(key, value) ==
    IF value # NULL THEN << <<key, SP>> \o value >> ELSE <<>>

\* labels.join(", ")
RECURSIVE joinLabels(_)
joinLabels(labels) ==
    IF labels = <<>> THEN <<>>
    ELSE IF Len(labels) = 1 THEN Head(labels)
    ELSE Head(labels) \o <<",", SP>> \o joinLabels(Tail(labels))

\* buildYamlLines that pushes the priority before the identifier and the url
buildYamlLinesPriorityFirst(story) ==
    yamlField(KEY_PRIORITY, story.priority)
      \o yamlField(KEY_ID, story.linearId)
      \o yamlField(KEY_URL, story.linearUrl)
      \o (IF Len(story.labels) > 0
          THEN << <<KEY_LABELS, SP, "[">> \o joinLabels(story.labels)
                    \o <<"]">> >>
          ELSE <<>>)
      \o yamlField(KEY_ESTIMATE, story.estimate)
      \o yamlField(KEY_ASSIGNEE, story.assignee)
      \o yamlField(KEY_STATUS, story.status)

buildYamlLines(story) ==
    yamlField(KEY_ID, story.linearId)
      \o yamlField(KEY_URL, story.linearUrl)
      \o yamlField(KEY_PRIORITY, story.priority)
      \o (IF Len(story.labels) > 0
          THEN << <<KEY_LABELS, SP, "[">> \o joinLabels(story.labels)
                    \o <<"]">> >>
          ELSE <<>>)
      \o yamlField(KEY_ESTIMATE, story.estimate)
      \o yamlField(KEY_ASSIGNEE, story.assignee)
      \o yamlField(KEY_STATUS, story.status)

\* the parts pushed for the file-level frontmatter
frontmatterParts(frontmatter) ==
    IF frontmatter.present
       /\ (frontmatter.project # NULL \/ frontmatter.team # NULL)
    THEN << <<FM_DELIM>> >>
           \o (IF frontmatter.project # NULL
               THEN << <<KEY_PROJECT, SP, QUOTE>> \o frontmatter.project
                         \o <<QUOTE>> >>
               ELSE <<>>)
           \o (IF frontmatter.team # NULL
               THEN << <<KEY_TEAM, SP, QUOTE>> \o frontmatter.team
                         \o <<QUOTE>> >>
               ELSE <<>>)
           \o << <<FM_DELIM>>, <<>> >>
    ELSE <<>>

\* the parts pushed for one story, yamlLines being buildYamlLines(story)
storyParts(story, yamlLines) ==
    << H2_PREFIX \o story.title, <<>> >>
      \o (IF Len(yamlLines) > 0
          THEN <<YAML_OPEN>> \o yamlLines \o << YAML_CLOSE, <<>> >>
          ELSE <<>>)
      \o (IF Trim(story.body) # <<>> THEN << story.body, <<>> >> ELSE <<>>)

\* the loop over the stories from stories[i] on
RECURSIVE serializeLoop(_, _, _)
serializeLoop(parts, stories, i) ==
    IF i > Len(stories) THEN parts
    ELSE serializeLoop(parts \o storyParts(stories[i],
                                           buildYamlLines(stories[i])),
                       stories, i + 1)

\* serializeStories(stories, frontmatter); an absent frontmatter has
\* present = FALSE
serializeStories(stories, frontmatter) ==
    JoinLines(serializeLoop(frontmatterParts(frontmatter), stories, 1))

(***************************************************************************)
(* The remote service, as the client object the code is handed.  Its       *)
(* directory (dir) maps names to the identifiers the lookup collections    *)
(* return as nodes[0]; fault names the client method that throws when the  *)
(* story being processed calls it ("none": no method throws), and          *)
(* "reject" makes createIssue / updateIssue answer success = false.        *)
(***************************************************************************)
\* the tokens that have the shape of a UUID (UUID_RE)
UuidTokens == {"uuid-team-eng", "uuid-team-ops", "uuid-proj-q1",
               "uuid-label-bug", "uuid-label-ui", "uuid-user-jane",
               "uuid-state-todo"}

\* the tokens that contain an "@"
EmailTokens == {"jane@x.io", "joe@x.io"}

isUuid(value) == Len(value) = 1 /\ value[1] \in UuidTokens

isEmail(value) == \E k \in DOMAIN value : value[k] \in EmailTokens

\* String.prototype.toLowerCase on the tokens that have upper-case letters
lowerToken(c) ==
    CASE c = "Todo" -> "todo"
      [] c = "TODO" -> "todo"
      [] c = "Done" -> "done"
      [] OTHER -> c

toLowerCase(s) == [k \in DOMAIN s |-> lowerToken(s[k])]

Call(op, arg) == [op |-> op, arg |-> arg]

\* what a resolver or gateway operation hands back: the error thrown ("" when
\* it returns), the value returned, the resolver's caches afterwards and the
\* remote calls it issued
Outcome(thrown, value, rs, calls) ==
    [thrown |-> thrown, value |-> value, rs |-> rs, calls |-> calls]

EmptyResolver ==
    [teamCache |-> <<>>, projectCache |-> <<>>, labelCache |-> <<>>,
     userCache |-> <<>>, stateCache |-> <<>>]

\* Map.get / Map.has / Map.set on a cache kept as a sequence of <<key, value>>
\* pairs
cacheHas(cache, key) == \E k \in DOMAIN cache : cache[k][1] = key

cacheGet(cache, key) ==
    IF cacheHas(cache, key)
    THEN cache[CHOOSE k \in DOMAIN cache : cache[k][1] = key][2]
    ELSE NULL

cacheSet(cache, key, value) ==
    IF cacheHas(cache, key)
    THEN [k \in DOMAIN cache |->
            IF cache[k][1] = key THEN <<key, value>> ELSE cache[k]]
    ELSE Append(cache, <<key, value>>)

\* nodes[0] of a lookup collection filtered by key, NULL when there is none
firstNode(collection, key) == cacheGet(collection, key)

(***************************************************************************)
(* Resolver                                                                *)
(***************************************************************************)
\* resolveTeamId that never stores what it looked up
resolveTeamIdUncached(rs, dir, fault, nameOrId) ==
    IF isUuid(nameOrId) THEN Outcome("", nameOrId, rs, <<>>)
    ELSE
      LET call == <<Call("teams", nameOrId)>>
          team == firstNode(dir.teams, nameOrId)
      IN IF fault = "teams" THEN Outcome("Error: teams", NULL, rs, call)
         ELSE IF team = NULL
              THEN Outcome("ResolverError: Team not found", NULL, rs, call)
              ELSE Outcome("", team, rs, call)

resolveTeamId(rs, dir, fault, nameOrId) ==
    IF isUuid(nameOrId) THEN Outcome("", nameOrId, rs, <<>>)
    ELSE
      LET cached == cacheGet(rs.teamCache, nameOrId)
          call == <<Call("teams", nameOrId)>>
          team == firstNode(dir.teams, nameOrId)
      IN IF cached # NULL THEN Outcome("", cached, rs, <<>>)
         ELSE IF fault = "teams" THEN Outcome("Error: teams", NULL, rs, call)
         ELSE IF team = NULL
              THEN Outcome("ResolverError: Team not found", NULL, rs, call)
              ELSE Outcome("", team,
                     [rs EXCEPT !.teamCache = cacheSet(@, nameOrId, team)],
                     call)

\* resolveProjectId without the test of the identifier shape
resolveProjectIdByLookup(rs, dir, fault, nameOrId, teamId) ==
    LET cacheKey == teamId \o <<":">> \o nameOrId
        cached == cacheGet(rs.projectCache, cacheKey)
        call == <<Call("projects", cacheKey)>>
        project == firstNode(dir.projects, cacheKey)
    IN IF cached # NULL THEN Outcome("", cached, rs, <<>>)
       ELSE IF fault = "projects"
            THEN Outcome("Error: projects", NULL, rs, call)
       ELSE IF project = NULL
            THEN Outcome("ResolverError: Project not found", NULL, rs, call)
            ELSE Outcome("", project,
                   [rs EXCEPT !.projectCache = cacheSet(@, cacheKey, project)],
                   call)

resolveProjectId(rs, dir, fault, nameOrId, teamId) ==
    IF isUuid(nameOrId) THEN Outcome("", nameOrId, rs, <<>>)
    ELSE
      LET cacheKey == teamId \o <<":">> \o nameOrId
          cached == cacheGet(rs.projectCache, cacheKey)
          call == <<Call("projects", cacheKey)>>
          project == firstNode(dir.projects, cacheKey)
      IN IF cached # NULL THEN Outcome("", cached, rs, <<>>)
         ELSE IF fault = "projects"
              THEN Outcome("Error: projects", NULL, rs, call)
         ELSE IF project = NULL
              THEN Outcome("ResolverError: Project not found", NULL, rs, call)
              ELSE Outcome("", project,
                     [rs EXCEPT !.projectCache = cacheSet(@, cacheKey, project)],
                     call)

\* the loop of resolveLabelIds from names[i] on; acc is the outcome so far
\* (value: the ids pushed)
RECURSIVE resolveLabelLoop(_, _, _, _, _)
resolveLabelLoop(acc, dir, fault, names, i) ==
    IF i > Len(names) \/ acc.thrown # "" THEN acc
    ELSE
      LET name == names[i]
          cached == cacheGet(acc.rs.labelCache, name)
          call == Call("issueLabels", name)
          label == firstNode(dir.labels, name)
      IN IF cached # NULL
         THEN resolveLabelLoop([acc EXCEPT !.value = Append(@, cached)],
                               dir, fault, names, i + 1)
         ELSE IF fault = "issueLabels"
              THEN [acc EXCEPT !.thrown = "Error: issueLabels",
                               !.calls = Append(@, call)]
         ELSE IF label = NULL
              THEN resolveLabelLoop([acc EXCEPT !.calls = Append(@, call)],
                                    dir, fault, names, i + 1)
              ELSE resolveLabelLoop(
                     [acc EXCEPT !.value = Append(@, label),
                                 !.calls = Append(@, call),
                                 !.rs.labelCache = cacheSet(@, name, label)],
                     dir, fault, names, i + 1)

\* resolveLabelIds that throws when a name has no match
resolveLabelIdsAllOrNothing(rs, dir, fault, names) ==
    IF Len(names) = 0 THEN Outcome("", <<>>, rs, <<>>)
    ELSE LET out == resolveLabelLoop(Outcome("", <<>>, rs, <<>>), dir, fault,
                                     names, 1)
         IN IF out.thrown = "" /\ Len(out.value) < Len(names)
            THEN [out EXCEPT !.thrown = "ResolverError: Label not found"]
            ELSE out

resolveLabelIds(rs, dir, fault, names) ==
    IF Len(names) = 0 THEN Outcome("", <<>>, rs, <<>>)
    ELSE resolveLabelLoop(Outcome("", <<>>, rs, <<>>), dir, fault, names, 1)

\* resolveAssigneeId that throws when no user matches
resolveAssigneeIdFailingLoudly(rs, dir, fault, emailOrName) ==
    LET cached == cacheGet(rs.userCache, emailOrName)
        call == <<Call("users", emailOrName)>>
        user == IF isEmail(emailOrName)
                THEN firstNode(dir.usersByEmail, emailOrName)
                ELSE firstNode(dir.usersByDisplayName, emailOrName)
    IN IF cached # NULL THEN Outcome("", cached, rs, <<>>)
       ELSE IF fault = "users" THEN Outcome("Error: users", NULL, rs, call)
       ELSE IF user = NULL
            THEN Outcome("ResolverError: User not found", NULL, rs, call)
       ELSE Outcome("", user,
              [rs EXCEPT !.userCache = cacheSet(@, emailOrName, user)], call)

resolveAssigneeId(rs, dir, fault, emailOrName) ==
    LET cached == cacheGet(rs.userCache, emailOrName)
        call == <<Call("users", emailOrName)>>
        user == IF isEmail(emailOrName)
                THEN firstNode(dir.usersByEmail, emailOrName)
                ELSE firstNode(dir.usersByDisplayName, emailOrName)
    IN IF cached # NULL THEN Outcome("", cached, rs, <<>>)
       ELSE IF cacheHas(rs.userCache, emailOrName)
            THEN Outcome("", NULL, rs, <<>>)
       ELSE IF fault = "users" THEN Outcome("Error: users", NULL, rs, call)
       ELSE Outcome("", user,
              [rs EXCEPT !.userCache = cacheSet(@, emailOrName, user)], call)

\* resolveWorkflowStateId with a cache key that leaves the team out
resolveWorkflowStateIdUnscoped(rs, dir, fault, name, teamId) ==
    LET cacheKey == toLowerCase(name)
        call == <<Call("workflowStates", teamId \o <<":">> \o name)>>
        state == firstNode(dir.workflowStates,
                           teamId \o <<":">> \o toLowerCase(name))
    IN IF cacheHas(rs.stateCache, cacheKey)
       THEN Outcome("", cacheGet(rs.stateCache, cacheKey), rs, <<>>)
       ELSE IF fault = "workflowStates"
            THEN Outcome("Error: workflowStates", NULL, rs, call)
       ELSE Outcome("", state,
              [rs EXCEPT !.stateCache = cacheSet(@, cacheKey, state)], call)

resolveWorkflowStateId(rs, dir, fault, name, teamId) ==
    LET cacheKey == teamId \o <<":">> \o toLowerCase(name)
        call == <<Call("workflowStates", teamId \o <<":">> \o name)>>
        \* the remote filter is name eqIgnoreCase within the team
        state == firstNode(dir.workflowStates, cacheKey)
    IN IF cacheHas(rs.stateCache, cacheKey)
       THEN Outcome("", cacheGet(rs.stateCache, cacheKey), rs, <<>>)
       ELSE IF fault = "workflowStates"
            THEN Outcome("Error: workflowStates", NULL, rs, call)
       ELSE Outcome("", state,
              [rs EXCEPT !.stateCache = cacheSet(@, cacheKey, state)], call)

(***************************************************************************)
(* Gateway: createIssue / updateIssue                                      *)
(***************************************************************************)
Digits == <<"0", "1", "2", "3", "4", "5", "6", "7", "8", "9">>

\* the decimal digits of n
RECURSIVE decimal(_)
decimal(n) ==
    IF n < 10 THEN <<Digits[n + 1]>>
    ELSE decimal(n \div 10) \o <<Digits[(n % 10) + 1]>>

\* the identifier and the url the service gives its n-th issue
remoteIdentifier(n) == <<"ENG-">> \o decimal(n)
remoteUrl(n) == <<"https://linear.app/issue/", "ENG-">> \o decimal(n)

\* the errors that are instances of LinearApiError
LinearApiErrors ==
    {"LinearApiError: Failed to create issue",
     "LinearApiError: Failed to create issue - Error: createIssue",
     "LinearApiError: Failed to update issue",
     "LinearApiError: Failed to update issue - Error: updateIssue"}

\* what the try block of createIssue / updateIssue throws: the error of the
\* client method when that throws, a LinearApiError when the response has
\* success = false, nothing ("") otherwise
thrownInTry(fault, method, rejected) ==
    IF fault = method THEN "Error: " \o method
    ELSE IF fault = "reject" THEN rejected
    ELSE ""

\* a catch block that throws whatever it caught
rethrowAsCaught(error, wrapped) == error

\* the catch block of createIssue / updateIssue: a LinearApiError is thrown
\* again, any other error is wrapped into a new LinearApiError
catchAsLinearApiError(error, wrapped) ==
    IF error \in LinearApiErrors THEN error ELSE wrapped

\* createIssue(client, input): value is [identifier, url] of the new issue;
\* every failure leaves as a LinearApiError.  issueCounter is the number of
\* issues the service has created so far.
createIssue(rs, issueCounter, fault, input) ==
    LET call == <<[op |-> "createIssue", arg |-> input.title,
                   teamId |-> input.teamId, projectId |-> input.projectId]>>
        error == thrownInTry(fault, "createIssue",
                             "LinearApiError: Failed to create issue")
    IN
    IF error # ""
    THEN Outcome(catchAsLinearApiError(error,
                   "LinearApiError: Failed to create issue - " \o error),
                 NULL, rs, call)
    ELSE Outcome("",
                 [identifier |-> remoteIdentifier(issueCounter + 1),
                  url |-> remoteUrl(issueCounter + 1)],
                 rs, call)

\* updateIssue(client, issueId, input)
updateIssue(rs, fault, issueId, input) ==
    LET call == <<Call("updateIssue", issueId)>>
        error == thrownInTry(fault, "updateIssue",
                             "LinearApiError: Failed to update issue")
    IN
    IF error # ""
    THEN Outcome(catchAsLinearApiError(error,
                   "LinearApiError: Failed to update issue - " \o error),
                 NULL, rs, call)
    ELSE Outcome("", [identifier |-> issueId], rs, call)

(***************************************************************************)
(* Importer: processStory and its helpers                                  *)
(***************************************************************************)
\* a ?? b
Coalesce(a, b) == IF a # NULL THEN a ELSE b

\* deduplicateLabels: the loop over [...storyLabels, ...defaultLabels]
RECURSIVE dedupLoop(_, _)
dedupLoop(labels, result) ==
    IF labels = <<>> THEN result
    ELSE IF \E k \in DOMAIN result : result[k] = Head(labels)
         THEN dedupLoop(Tail(labels), result)
         ELSE dedupLoop(Tail(labels), Append(result, Head(labels)))

\* a merge that takes the default labels first
deduplicateLabelsDefaultsFirst(storyLabels, defaultLabels) ==
    dedupLoop(defaultLabels \o storyLabels, <<>>)

deduplicateLabels(storyLabels, defaultLabels) ==
    dedupLoop(storyLabels \o defaultLabels, <<>>)

ImportResult(story, action, linearId, linearUrl, error) ==
    [story |-> story, action |-> action, linearId |-> linearId,
     linearUrl |-> linearUrl, error |-> error]

\* what processStory hands back: the error it rejects with ("" when it
\* resolves), the ImportResult, the resolver's caches, the remote calls
\* issued and the service's issue counter
Processed(result, rs, calls, issueCounter) ==
    [thrown |-> "", result |-> result, rs |-> rs, calls |-> calls,
     issueCounter |-> issueCounter]

\* a catch block that throws the error again
Rethrown(story, error, rs, calls, issueCounter) ==
    [Processed(ImportResult(story, "failed", NULL, NULL, error),
               rs, calls, issueCounter) EXCEPT !.thrown = error]

\* the catch block of processStory
Failed(story, error, rs, calls, issueCounter) ==
    Processed(ImportResult(story, "failed", NULL, NULL, error),
              rs, calls, issueCounter)

\* createStory with an input that leaves the team out
createStoryWithoutTeam(rs, issueCounter, fault, story, teamId, projectId, calls) ==
    LET input == [title |-> story.title, teamId |-> NULL,
                  projectId |-> projectId]
        created == createIssue(rs, issueCounter, fault, input)
    IN IF created.thrown # ""
       THEN Failed(story, created.thrown, rs, calls \o created.calls,
                   issueCounter)
       ELSE Processed(ImportResult(story, "created",
                                   created.value.identifier,
                                   created.value.url, ""),
                      rs, calls \o created.calls, issueCounter + 1)

\* createStory
createStory(rs, issueCounter, fault, story, teamId, projectId, calls) ==
    LET input == [title |-> story.title, teamId |-> teamId,
                  projectId |-> projectId]
        created == createIssue(rs, issueCounter, fault, input)
    IN IF created.thrown # ""
       THEN Failed(story, created.thrown, rs, calls \o created.calls,
                   issueCounter)
       ELSE Processed(ImportResult(story, "created",
                                   created.value.identifier,
                                   created.value.url, ""),
                      rs, calls \o created.calls, issueCounter + 1)

\* updateStory taking the create branch
updateStoryByCreating(rs, issueCounter, fault, story, teamId, projectId, calls) ==
    createStory(rs, issueCounter, fault, story, teamId, projectId, calls)

\* updateStory
updateStory(rs, issueCounter, fault, story, teamId, projectId, calls) ==
    LET issueIdentifier == story.linearId
        updateInput == [title |-> story.title]
        updated == updateIssue(rs, fault, issueIdentifier, updateInput)
    IN IF updated.thrown # ""
       THEN Failed(story, updated.thrown, rs, calls \o updated.calls,
                   issueCounter)
       ELSE Processed(ImportResult(story, "updated", issueIdentifier,
                                   story.linearUrl, ""),
                      rs, calls \o updated.calls, issueCounter)

\* a team picked as override, story, default
teamNameOverrideFirst(story, options) ==
    Coalesce(options.team, Coalesce(story.team, options.config.defaultTeam))

\* story.team ?? options.team ?? options.config.defaultTeam
teamNameFor(story, options) ==
    Coalesce(story.team, Coalesce(options.team, options.config.defaultTeam))

\* story.project ?? options.project ?? options.config.defaultProject
projectNameFor(story, options) ==
    Coalesce(story.project,
             Coalesce(options.project, options.config.defaultProject))

\* the try block of processStory with its catch
tryProcessStory(rs, dir, issueCounter, fault, story, options) ==
      LET teamName == teamNameFor(story, options)
          team == resolveTeamId(rs, dir, fault, teamName)
          teamId == team.value
          projectName == projectNameFor(story, options)
          project == IF projectName # NULL
                     THEN resolveProjectId(team.rs, dir, fault, projectName,
                                           teamId)
                     ELSE Outcome("", NULL, team.rs, <<>>)
          allLabels == deduplicateLabels(story.labels,
                                         options.config.defaultLabels)
          labels == IF Len(allLabels) > 0
                    THEN resolveLabelIds(project.rs, dir, fault, allLabels)
                    ELSE Outcome("", <<>>, project.rs, <<>>)
          assignee == IF story.assignee # NULL
                      THEN resolveAssigneeId(labels.rs, dir, fault,
                                             story.assignee)
                      ELSE Outcome("", NULL, labels.rs, <<>>)
          state == IF story.status # NULL
                   THEN resolveWorkflowStateId(assignee.rs, dir, fault,
                                               story.status, teamId)
                   ELSE Outcome("", NULL, assignee.rs, <<>>)
      IN IF teamName = NULL
         THEN Failed(story,
                "No team specified for story and no default team configured",
                rs, <<>>, issueCounter)
         ELSE IF team.thrown # ""
         THEN Failed(story, team.thrown, team.rs, team.calls, issueCounter)
         ELSE IF project.thrown # ""
         THEN Failed(story, project.thrown, project.rs,
                     team.calls \o project.calls, issueCounter)
         ELSE IF labels.thrown # ""
         THEN Failed(story, labels.thrown, labels.rs,
                     team.calls \o project.calls \o labels.calls,
                     issueCounter)
         ELSE IF assignee.thrown # ""
         THEN Failed(story, assignee.thrown, assignee.rs,
                     team.calls \o project.calls \o labels.calls
                        \o assignee.calls,
                     issueCounter)
         ELSE IF state.thrown # ""
         THEN Failed(story, state.thrown, state.rs,
                     team.calls \o project.calls \o labels.calls
                        \o assignee.calls \o state.calls,
                     issueCounter)
         ELSE IF story.linearId # NULL
         THEN updateStory(state.rs, issueCounter, fault, story, teamId,
                          project.value,
                          team.calls \o project.calls \o labels.calls
                             \o assignee.calls \o state.calls)
         ELSE createStory(state.rs, issueCounter, fault, story, teamId,
                          project.value,
                          team.calls \o project.calls \o labels.calls
                             \o assignee.calls \o state.calls)

\* processStory without the dry-run check
processStoryIgnoringDryRun(rs, dir, issueCounter, fault, story, options) ==
    tryProcessStory(rs, dir, issueCounter, fault, story, options)

processStory(rs, dir, issueCounter, fault, story, options) ==
    IF options.dryRun
    THEN Processed(ImportResult(story, "skipped", NULL, NULL, ""),
                   rs, <<>>, issueCounter)
    ELSE tryProcessStory(rs, dir, issueCounter, fault, story, options)

\* buildSummary
\* a flag in place of the count: whether some result has the action
countActionAsFlag(results, action) ==
    IF \E k \in DOMAIN results : results[k].action = action THEN 1 ELSE 0

countAction(results, action) ==
    Cardinality({k \in DOMAIN results : results[k].action = action})

\* a summary that leaves the failed results out of its list
buildSummaryWithoutFailed(results) ==
    [total |-> Len(results),
     created |-> countAction(results, "created"),
     updated |-> countAction(results, "updated"),
     failed |-> countAction(results, "failed"),
     skipped |-> countAction(results, "skipped"),
     results |-> SelectSeq(results, LAMBDA r : r.action # "failed")]

buildSummary(results) ==
    [total |-> Len(results),
     created |-> countAction(results, "created"),
     updated |-> countAction(results, "updated"),
     failed |-> countAction(results, "failed"),
     skipped |-> countAction(results, "skipped"),
     results |-> results]

(***************************************************************************)
(* buildIssueFilter.  A filter is a record of its top-level conditions; a  *)
(* condition that is not set is NULL.                                      *)
(***************************************************************************)
LetterTokens == {"ENG", "eng", "OPS"}

\* String.prototype.toUpperCase on a team key
upperToken(c) == IF c = "eng" THEN "ENG" ELSE c

\* id.match(/^([A-Za-z]+)-(\d+)$/): an identifier is key, "-", number
identifierMatch(id) ==
    /\ Len(id) = 3
    /\ id[1] \in LetterTokens
    /\ id[2] = "-"
    /\ id[3] \in NumberTokens

\* the loop over input.identifiers: the numbers pushed, in order
identifierNumbers(identifiers) ==
    LET matched == SelectSeq(identifiers, identifierMatch)
    IN [k \in DOMAIN matched |-> matched[k][3]]

\* the loop over input.identifiers: the set of team keys
identifierTeamKeys(identifiers) ==
    {upperToken(identifiers[k][1]) :
        k \in {j \in DOMAIN identifiers : identifierMatch(identifiers[j])}}

\* buildIssueFilter(input)
buildIssueFilter(input) ==
    [project |-> input.projectId,
     number |-> identifierNumbers(input.identifiers),
     team |-> IF Cardinality(identifierTeamKeys(input.identifiers)) = 1
              THEN <<CHOOSE key \in identifierTeamKeys(input.identifiers) :
                       TRUE>>
              ELSE NULL,
     state |-> input.statusName,
     assignee |-> input.assigneeEmail,
     creator |-> input.creatorEmail]

(***************************************************************************)
(* fetchIssues.  The remote service holds a sequence of issues and answers *)
(* client.issues({filter, first, after}) with a page of the issues that    *)
(* satisfy every condition of the filter; after is the number of issues    *)
(* already handed out (0: no cursor).                                      *)
(***************************************************************************)
\* the issue satisfies every condition of the filter
issueMatches(issue, filter) ==
    /\ filter.project # NULL => issue.projectId = filter.project
    /\ filter.number # <<>>
          => \E k \in DOMAIN filter.number : filter.number[k] = issue.number
    /\ filter.team # NULL => issue.teamKey = filter.team
    /\ filter.state # NULL
          => toLowerCase(issue.state) = toLowerCase(filter.state)
    /\ filter.assignee # NULL => issue.assignee = filter.assignee
    /\ filter.creator # NULL => issue.creator = filter.creator

\* the response of client.issues: at most pageSize nodes after the cursor
issuesPage(remoteIssues, filter, after, pageSize) ==
    LET matching == SelectSeq(remoteIssues,
                              LAMBDA issue : issueMatches(issue, filter))
        last == IF after + pageSize < Len(matching)
                THEN after + pageSize ELSE Len(matching)
    IN [nodes |-> SubSeq(matching, after + 1, last),
        hasNextPage |-> last < Len(matching),
        endCursor |-> last]

\* a loop that stops after its first page
fetchLoopFirstPageOnly(acc, remoteIssues, fault, filter, cursor, pageSize) ==
    LET query == [filter |-> filter, after |-> cursor]
        response == issuesPage(remoteIssues, filter, cursor, pageSize)
    IN IF fault = "issues"
       THEN [acc EXCEPT !.thrown = "Error: issues",
                        !.queries = Append(@, query)]
       ELSE [acc EXCEPT !.issues = @ \o response.nodes,
                        !.queries = Append(@, query)]

\* the do-while loop of fetchIssues from the given cursor on; acc is
\* [thrown, issues, queries], queries being the client.issues calls
RECURSIVE fetchLoop(_, _, _, _, _, _)
fetchLoop(acc, remoteIssues, fault, filter, cursor, pageSize) ==
    LET query == [filter |-> filter, after |-> cursor]
        response == issuesPage(remoteIssues, filter, cursor, pageSize)
        next == [acc EXCEPT !.issues = @ \o response.nodes,
                            !.queries = Append(@, query)]
    IN IF fault = "issues"
       THEN [acc EXCEPT !.thrown = "Error: issues",
                        !.queries = Append(@, query)]
       ELSE IF response.hasNextPage /\ response.endCursor # 0
            THEN fetchLoop(next, remoteIssues, fault, filter,
                           response.endCursor, pageSize)
            ELSE next

\* fetchIssues(client, filter)
fetchIssues(remoteIssues, fault, filter, pageSize) ==
    fetchLoop([thrown |-> "", issues |-> <<>>, queries |-> <<>>],
              remoteIssues, fault, filter, 0, pageSize)

(***************************************************************************)
(* Exporter: exportStories and its helpers                                 *)
(***************************************************************************)
\* the try block of buildFilterInput: [thrown, value, rs, calls], value
\* being the project id
resolveFilterProject(teamOut, dir, fault, project) ==
    IF teamOut.thrown # "" THEN teamOut
    ELSE LET projectOut == resolveProjectId(teamOut.rs, dir, fault, project,
                                            teamOut.value)
         IN [projectOut EXCEPT !.calls = teamOut.calls \o @]

\* buildFilterInput(resolver, filters, team): [input, rs, calls]
buildFilterInput(rs, dir, fault, filters, team) ==
    LET tried == filters.project # NULL /\ team # NULL
        out == IF tried
               THEN resolveFilterProject(resolveTeamId(rs, dir, fault, team),
                                         dir, fault, filters.project)
               ELSE Outcome("", NULL, rs, <<>>)
    IN [input |-> [projectId |-> IF out.thrown = "" THEN out.value ELSE NULL,
                   identifiers |-> filters.issues,
                   statusName |-> filters.status,
                   assigneeEmail |-> filters.assignee,
                   creatorEmail |-> filters.creator],
        rs |-> out.rs,
        calls |-> out.calls]

\* issueToUserStory(issue)
issueToUserStory(issue) ==
    [title |-> issue.title,
     linearId |-> issue.identifier,
     linearUrl |-> issue.url,
     priority |-> issue.priority,
     labels |-> issue.labels,
     estimate |-> issue.estimate,
     assignee |-> issue.assignee,
     status |-> issue.state,
     body |-> issue.description,
     project |-> issue.project,
     team |-> issue.team]

\* the frontmatter exportStories builds
exportFrontmatter(options) ==
    [present |-> TRUE, project |-> options.filters.project,
     team |-> options.team]

(***************************************************************************)
(* Bounds and input universes                                              *)
(***************************************************************************)
\* stories per document of an import
MaxStories == 2
\* lines of a free text handed to writeBackIds
MaxLines == 4
\* importStories calls in a row on the same files
MaxRuns == 2
\* issues in one page of the remote service's answer to client.issues
PageSize == 1
\* labels of a story, and default labels of a run
MaxLabels == 2

TitleWords == <<"A", "B", "C", "D">>

H2(w) == <<HASH2, SP, w>>
TextLine == <<"text">>
OldId(w) == <<"OLD-", w>>
OldUrl(w) == <<"https://linear.app/issue/", "OLD-", w>>

\* The shapes of a story section, for the title word w.
StoryShape(shape, w) ==
    CASE shape = "plain" ->
           << H2(w), <<>>, TextLine >>
      [] shape = "template" ->
           << H2(w), <<>>, YAML_OPEN, <<KEY_ID>>, <<KEY_URL>>,
              <<KEY_PRIORITY, SP, "2">>, YAML_CLOSE, <<>>, TextLine >>
      [] shape = "existing" ->
           << H2(w), YAML_OPEN, <<KEY_ID, SP>> \o OldId(w),
              <<KEY_URL, SP>> \o OldUrl(w), YAML_CLOSE, TextLine >>
      [] shape = "noids" ->
           << H2(w), <<SP>>, YAML_OPEN, <<KEY_PRIORITY, SP, "2">>,
              <<KEY_LABELS, SP, "[", "bug", ",", SP, "ui", "]">>,
              <<KEY_ASSIGNEE, SP, "jane@x.io">>, <<KEY_STATUS, SP, "Todo">>,
              YAML_CLOSE >>
      [] shape = "late" ->
           << H2(w), TextLine, YAML_OPEN, <<KEY_ID>>, YAML_CLOSE >>
      [] shape = "stranger" ->
           << H2(w), YAML_OPEN, <<KEY_ASSIGNEE, SP, "joe@x.io">>,
              <<KEY_STATUS, SP, "nope">>, YAML_CLOSE, TextLine >>
      [] shape = "unclosed" ->
           << H2(w), YAML_OPEN, <<KEY_ID>> >>
      [] shape = "sample" ->
           << H2(w), YAML_OPEN, <<KEY_ID>>, <<KEY_URL>>, YAML_CLOSE,
              TextLine, YAML_OPEN, <<KEY_STATUS, SP, "Todo">>, YAML_CLOSE >>
      [] shape = "trailing" ->
           << <<HASH2, SP, w, SP>>, <<TICKS, YAML, SP>>, <<KEY_ID>>,
              YAML_CLOSE >>

WellFormedShapes == {"plain", "template", "existing", "noids", "late"}
MalformedShapes == {"unclosed", "trailing"}
Shapes == WellFormedShapes \cup MalformedShapes

Frontmatter(team) ==
    IF team = NULL THEN <<>>
    ELSE << <<FM_DELIM>>, <<KEY_TEAM, SP>> \o team, <<FM_DELIM>>, <<>> >>

RECURSIVE Concat(_)
Concat(seqs) == IF seqs = <<>> THEN <<>> ELSE Head(seqs) \o Concat(Tail(seqs))

\* the document with the given frontmatter team and one story of each of
\* the given shapes, the k-th story titled TitleWords[k]
Document(team, shapes) ==
    JoinLines(Frontmatter(team)
                \o Concat([k \in DOMAIN shapes |->
                             StoryShape(shapes[k], TitleWords[k])])
                \o << <<>> >>)

ShapeSeqs(S, n) == UNION {[1..m -> S] : m \in 1..n}

\* a document without any H2 heading
NoStoryDoc == JoinLines(<< TextLine, <<>> >>)

\* a document whose two stories have the same title
DuplicateTitleDoc ==
    JoinLines(StoryShape("template", "A") \o StoryShape("plain", "A"))

(***************************************************************************)
(* State                                                                   *)
(***************************************************************************)
VARIABLES
    files,             \* the file system: path -> text
    options,           \* the ImportOptions of the current importStories call
    issueCounter,      \* the remote service: number of issues created
    pc,                \* where importStories is: "idle", "file", "story",
                       \* "done" (returned) or "thrown" (rejected)
    fileIdx,           \* index into options.files of the current file
    storyIdx,          \* index into parsed.stories of the next story
    fileContent,       \* importStories' local: the text read
    parsed,            \* importStories' local: the ParsedFile
    writeBackUpdates,  \* importStories' local
    results,           \* importStories' local
    resolver,          \* the Resolver's caches
    summary,           \* the ImportSummary returned
    calls,             \* history: the remote calls issued, in order
    writes,            \* history: the Bun.write calls, in order
    storyLog,          \* history: one entry per processStory call
    runs,              \* history: number of importStories calls started
    faultUsed,         \* whether the remote service has failed in this run
    initialFiles,      \* history: the file system before the first import
    wbContent,         \* writeBackIds harness: the content argument
    wbUpdates,         \* writeBackIds harness: the updates argument
    wbResult,          \* writeBackIds harness: the text returned
    wbPhase,           \* writeBackIds harness: "off", "call" or "returned"
    rvResolver,        \* Resolver on its own: the caches of the instance
    rvLog,             \* Resolver on its own: history of the method calls
    szSource,          \* serializer harness: the text parsed first, if any
    szStories,         \* serializer harness: the stories argument
    szFrontmatter,     \* serializer harness: the frontmatter argument
    szText,            \* serializer harness: the text serializeStories made
    szParsed,          \* serializer harness: what the parser makes of it
    szPhase,           \* serializer harness: "off", "source", "rejected",
                       \* "call", "serialized" or "parsed"; parser harness:
                       \* "text" or "read"
    exOptions,         \* the ExportOptions of the exportStories call
    exFault,           \* the client method that throws during the export
    exFilter,          \* exportStories' local: filter
    exCalls,           \* history: the lookups the export's Resolver issued
    exQueries,         \* history: the client.issues calls, in order
    exIssues,          \* exportStories' local: issues
    exWrites,          \* history: the Bun.write calls of the export
    exResult,          \* what exportStories returned
    exPhase,           \* where exportStories is: "off", "call", "filter",
                       \* "fetched", "returned" or "thrown" (rejected)
    fnInput,           \* a helper function on its own: its arguments
    fnOutput,          \* a helper function on its own: what it returned
    fnPhase            \* a helper function on its own: "off", "call" or
                       \* "returned"

importerVars == <<files, options, issueCounter, pc, fileIdx, storyIdx,
                  fileContent, parsed, writeBackUpdates, results, resolver,
                  summary, calls, writes, storyLog, runs, faultUsed,
                  initialFiles>>
resolverVars == <<rvResolver, rvLog>>
serializerVars == <<szSource, szStories, szFrontmatter, szText, szParsed,
                    szPhase>>
exporterVars == <<exOptions, exFault, exFilter, exCalls, exQueries, exIssues,
                  exWrites, exResult, exPhase>>
functionVars == <<fnInput, fnOutput, fnPhase>>
toolVars == <<resolverVars, serializerVars, exporterVars, functionVars>>
harnessVars == <<wbContent, wbUpdates, wbResult, wbPhase, toolVars>>
vars == <<importerVars, harnessVars>>

\* the directory of the remote service
RemoteDirectory ==
    [teams |-> << <<<<"Eng">>, <<"uuid-team-eng">>>> >>,
     projects |-> << <<<<"uuid-team-eng", ":", "Q1">>, <<"uuid-proj-q1">>>> >>,
     labels |-> << <<<<"bug">>, <<"uuid-label-bug">>>> >>,
     usersByEmail |-> << <<<<"jane@x.io">>, <<"uuid-user-jane">>>> >>,
     usersByDisplayName |-> << <<<<"Jane">>, <<"uuid-user-jane">>>> >>,
     workflowStates |->
        << <<<<"uuid-team-eng", ":", "todo">>, <<"uuid-state-todo">>>> >>]

\* what can fail in the remote service while one story is processed
FaultKinds == {"teams", "createIssue", "updateIssue", "reject"}

Paths == <<"a.md", "b.md">>

Configs ==
    {[defaultTeam |-> t, defaultProject |-> NULL, defaultLabels |-> <<>>] :
        t \in {NULL, <<"Eng">>}}

ImportOptionsSet ==
    {[files |-> Paths, config |-> c, team |-> NULL, project |-> NULL,
      dryRun |-> d, noWriteBack |-> n] :
        c \in Configs, d \in BOOLEAN, n \in BOOLEAN}

\* the documents of the first file
FirstDocs ==
    {Document(<<"Eng">>, s) : s \in ShapeSeqs(Shapes, MaxStories)}
      \cup {Document(NULL, s) : s \in ShapeSeqs({"template", "existing"}, 1)}
      \cup {NoStoryDoc, DuplicateTitleDoc}

\* the documents of the second file
SecondDocs ==
    {NoStoryDoc, Document(<<"Ops">>, <<"plain">>),
     Document(<<"Eng">>, <<"template">>)}

NoParsedFile ==
    [error |-> "none", frontmatter |-> [project |-> NULL, team |-> NULL],
     stories |-> <<>>, filePath |-> ""]

NoSummary == buildSummary(<<>>)

ImporterIdle ==
    /\ issueCounter = 0
    /\ pc = "idle"
    /\ fileIdx = 0
    /\ storyIdx = 0
    /\ fileContent = <<>>
    /\ parsed = NoParsedFile
    /\ writeBackUpdates = <<>>
    /\ results = <<>>
    /\ resolver = EmptyResolver
    /\ summary = NoSummary
    /\ calls = <<>>
    /\ writes = <<>>
    /\ storyLog = <<>>
    /\ runs = 0
    /\ faultUsed = FALSE

\* no Resolver made outside importStories
ResolverOff ==
    /\ rvResolver = EmptyResolver
    /\ rvLog = <<>>

\* the frontmatter argument left out
NoFrontmatter == [present |-> FALSE, project |-> NULL, team |-> NULL]

\* no serializeStories call outside the export
SerializerOff ==
    /\ szSource = <<>>
    /\ szStories = <<>>
    /\ szFrontmatter = NoFrontmatter
    /\ szText = <<>>
    /\ szParsed = NoParsedFile
    /\ szPhase = "off"

\* the ExportOptions of an export without any filter
NoExportOptions ==
    [filters |-> [project |-> NULL, issues |-> <<>>, status |-> NULL,
                  assignee |-> NULL, creator |-> NULL],
     team |-> NULL, outputPath |-> ""]

\* the filter without any condition
NoFilter ==
    [project |-> NULL, number |-> <<>>, team |-> NULL, state |-> NULL,
     assignee |-> NULL, creator |-> NULL]

NoExportResult == [count |-> 0, outputPath |-> ""]

\* exportStories has not started
ExporterIdle ==
    /\ exFilter = NoFilter
    /\ exCalls = <<>>
    /\ exQueries = <<>>
    /\ exIssues = <<>>
    /\ exWrites = <<>>
    /\ exResult = NoExportResult

\* no export
ExporterOff ==
    /\ exOptions = NoExportOptions
    /\ exFault = "none"
    /\ ExporterIdle
    /\ exPhase = "off"

\* no helper function called on its own
FunctionsOff ==
    /\ fnInput = <<>>
    /\ fnOutput = <<>>
    /\ fnPhase = "off"

ToolsOff == ResolverOff /\ SerializerOff /\ ExporterOff /\ FunctionsOff

HarnessOff ==
    /\ wbContent = <<>>
    /\ wbUpdates = <<>>
    /\ wbResult = <<>>
    /\ wbPhase = "off"
    /\ ToolsOff

\* the file system holding the two documents
FileSystem(first, second) ==
    [p \in {Paths[1], Paths[2]} |-> IF p = Paths[1] THEN first ELSE second]

Init ==
    /\ files \in {FileSystem(first, second) :
                     first \in FirstDocs, second \in SecondDocs}
    /\ initialFiles = files
    /\ options \in ImportOptionsSet
    /\ ImporterIdle
    /\ HarnessOff

(***************************************************************************)
(* importStories                                                           *)
(***************************************************************************)
\* an entry of importStories that keeps the Resolver of the call before
EnterImportStoriesKeepingResolver ==
    /\ pc' = "file"
    /\ runs' = runs + 1
    /\ resolver' = resolver
    /\ results' = <<>>
    /\ fileIdx' = 1
    /\ faultUsed' = FALSE
    /\ UNCHANGED <<files, options, issueCounter, storyIdx, fileContent,
                   parsed, writeBackUpdates, summary, calls, writes,
                   storyLog, initialFiles, harnessVars>>

\* the entry of importStories: a new Resolver and an empty result list
EnterImportStories ==
    /\ pc' = "file"
    /\ runs' = runs + 1
    /\ resolver' = EmptyResolver
    /\ results' = <<>>
    /\ fileIdx' = 1
    /\ faultUsed' = FALSE
    /\ UNCHANGED <<files, options, issueCounter, storyIdx, fileContent,
                   parsed, writeBackUpdates, summary, calls, writes,
                   storyLog, initialFiles, harnessVars>>

\* the first call of importStories
ImportStories ==
    /\ pc = "idle"
    /\ EnterImportStories

\* the head of the loop over options.files: read the file and parse it; an
\* error thrown by parseMarkdownFile leaves importStories
ReadAndParse ==
    /\ pc = "file"
    /\ fileIdx <= Len(options.files)
    /\ fileContent' = files[options.files[fileIdx]]
    /\ parsed' = parseMarkdownFile(fileContent', options.files[fileIdx])
    /\ pc' = IF parsed'.error = "none" THEN "story" ELSE "thrown"
    /\ writeBackUpdates' = <<>>
    /\ storyIdx' = 1
    /\ UNCHANGED <<files, options, issueCounter, fileIdx, results, resolver,
                   summary, calls, writes, storyLog, runs, faultUsed,
                   initialFiles, harnessVars>>

\* whether the loop body collects the result for the write-back
collectsUpdate(result) ==
    /\ result.action = "created"
    /\ result.linearId # NULL
    /\ result.linearUrl # NULL

\* the entry pushed to writeBackUpdates
writeBackUpdate(story, result) ==
    [title |-> story.title, linearId |-> result.linearId,
     linearUrl |-> result.linearUrl]

\* the entry of the history of processStory calls
StoryLogEntry(story, fault, done) ==
    [run |-> runs, file |-> options.files[fileIdx], index |-> storyIdx,
     story |-> story, action |-> done.result.action,
     linearId |-> done.result.linearId, linearUrl |-> done.result.linearUrl,
     error |-> done.result.error, fault |-> fault, calls |-> done.calls,
     dryRun |-> options.dryRun, noWriteBack |-> options.noWriteBack]

\* the loop body after the await of processStory, done being what it handed
\* back: a rejection leaves importStories, a result is pushed
StoryProcessed(story, fault, done) ==
    /\ resolver' = done.rs
    /\ calls' = calls \o done.calls
    /\ issueCounter' = done.issueCounter
    /\ faultUsed' = (faultUsed \/ fault # "none")
    /\ IF done.thrown # ""
       THEN /\ pc' = "thrown"
            /\ UNCHANGED <<results, writeBackUpdates, storyLog, storyIdx>>
       ELSE /\ pc' = pc
            /\ results' = Append(results, done.result)
            /\ writeBackUpdates' =
                 IF collectsUpdate(done.result)
                 THEN Append(writeBackUpdates,
                             writeBackUpdate(story, done.result))
                 ELSE writeBackUpdates
            /\ storyLog' = Append(storyLog, StoryLogEntry(story, fault, done))
            /\ storyIdx' = storyIdx + 1

\* one iteration of the loop over parsed.stories
ProcessStory ==
    /\ pc = "story"
    /\ storyIdx <= Len(parsed.stories)
    /\ \E fault \in {"none"} \cup (IF faultUsed THEN {} ELSE FaultKinds) :
         StoryProcessed(parsed.stories[storyIdx], fault,
                        processStory(resolver, RemoteDirectory, issueCounter,
                                     fault, parsed.stories[storyIdx],
                                     options))
    /\ UNCHANGED <<files, options, fileIdx, fileContent, parsed,
                   summary, writes, runs, initialFiles, harnessVars>>

\* the condition of the write-back without the noWriteBack option
shouldWriteBackIgnoringOption(importOptions, updates) ==
    /\ ~importOptions.dryRun
    /\ Len(updates) > 0

\* the condition of the write-back after the loop over the stories
shouldWriteBack(importOptions, updates) ==
    /\ ~importOptions.dryRun
    /\ ~importOptions.noWriteBack
    /\ Len(updates) > 0

\* the write-back: writeBackIds and Bun.write
WriteFile(filePath, updatedContent) ==
    /\ files' = [files EXCEPT ![filePath] = updatedContent]
    /\ writes' = Append(writes,
                        [path |-> filePath, content |-> updatedContent,
                         original |-> fileContent,
                         updates |-> writeBackUpdates, run |-> runs])

\* after the last story of the file: the write-back, then the next file
WriteBack ==
    /\ pc = "story"
    /\ storyIdx > Len(parsed.stories)
    /\ IF shouldWriteBack(options, writeBackUpdates)
       THEN WriteFile(options.files[fileIdx],
                      writeBackIds(options.files[fileIdx], fileContent,
                                   writeBackUpdates))
       ELSE UNCHANGED <<files, writes>>
    /\ fileIdx' = fileIdx + 1
    /\ pc' = "file"
    /\ UNCHANGED <<options, issueCounter, storyIdx, fileContent, parsed,
                   writeBackUpdates, results, resolver, summary, calls,
                   storyLog, runs, faultUsed, initialFiles, harnessVars>>

\* after the last file: return buildSummary(results)
ReturnSummary ==
    /\ pc = "file"
    /\ fileIdx > Len(options.files)
    /\ summary' = buildSummary(results)
    /\ pc' = "done"
    /\ UNCHANGED <<files, options, issueCounter, fileIdx, storyIdx,
                   fileContent, parsed, writeBackUpdates, results, resolver,
                   calls, writes, storyLog, runs, faultUsed, initialFiles,
                   harnessVars>>

Next ==
    \/ ImportStories
    \/ ReadAndParse
    \/ ProcessStory
    \/ WriteBack
    \/ ReturnSummary

Spec == Init /\ [][Next]_vars

(***************************************************************************)
(* Repeated imports: importStories is called again on the same files once  *)
(* the previous call has returned.                                         *)
(***************************************************************************)
ImportAgain ==
    /\ pc = "done"
    /\ runs < MaxRuns
    /\ EnterImportStories

RepeatOptionsSet ==
    {[files |-> <<Paths[1]>>,
      config |-> [defaultTeam |-> <<"Eng">>, defaultProject |-> NULL,
                  defaultLabels |-> <<>>],
      team |-> NULL, project |-> NULL, dryRun |-> FALSE, noWriteBack |-> n] :
        n \in BOOLEAN}

InitRepeat ==
    /\ files \in {FileSystem(first, NoStoryDoc) :
                     first \in {Document(NULL, s) :
                                  s \in ShapeSeqs(Shapes, MaxStories)}}
    /\ initialFiles = files
    /\ options \in RepeatOptionsSet
    /\ ImporterIdle
    /\ HarnessOff

NextRepeat ==
    \/ Next
    \/ ImportAgain

SpecRepeat == InitRepeat /\ [][NextRepeat]_vars

(***************************************************************************)
(* importStories with the write-back on and a default team configured      *)
(***************************************************************************)
InitOrder ==
    /\ Init
    /\ ~options.noWriteBack
    /\ options.config.defaultTeam # NULL

SpecOrder == InitOrder /\ [][Next]_vars

(***************************************************************************)
(* importStories over stories whose team, project, assignee or status the  *)
(* remote service may not know                                             *)
(***************************************************************************)
UnmatchedOptionsSet ==
    {[files |-> Paths,
      config |-> [defaultTeam |-> <<"Eng">>, defaultProject |-> p,
                  defaultLabels |-> <<>>],
      team |-> NULL, project |-> NULL, dryRun |-> FALSE, noWriteBack |-> n] :
        p \in {NULL, <<"Q1">>, <<"Nope">>}, n \in BOOLEAN}

InitUnmatched ==
    /\ files \in {FileSystem(Document(t, s),
                              Document(<<"Eng">>, <<"stranger">>)) :
                     t \in {<<"Eng">>, <<"Ops">>},
                     s \in ShapeSeqs({"plain", "noids", "stranger",
                                      "existing"}, MaxStories)}
    /\ initialFiles = files
    /\ options \in UnmatchedOptionsSet
    /\ ImporterIdle
    /\ HarnessOff

SpecUnmatched == InitUnmatched /\ [][Next]_vars

(***************************************************************************)
(* importStories over stories whose team and project may come from the     *)
(* frontmatter, from the options of the run or from the configuration      *)
(***************************************************************************)
\* the frontmatter lines for a project and a team, either of which may be
\* missing
FrontmatterOf(project, team) ==
    IF project = NULL /\ team = NULL THEN <<>>
    ELSE << <<FM_DELIM>> >>
           \o (IF project # NULL THEN << <<KEY_PROJECT, SP>> \o project >>
               ELSE <<>>)
           \o (IF team # NULL THEN << <<KEY_TEAM, SP>> \o team >> ELSE <<>>)
           \o << <<FM_DELIM>>, <<>> >>

\* the document with that frontmatter and one story of each shape
PlacedDocument(project, team, shapes) ==
    JoinLines(FrontmatterOf(project, team)
                \o Concat([k \in DOMAIN shapes |->
                             StoryShape(shapes[k], TitleWords[k])])
                \o << <<>> >>)

PrecedenceOptionsSet ==
    {[files |-> Paths,
      config |-> [defaultTeam |-> dt, defaultProject |-> dp,
                  defaultLabels |-> <<>>],
      team |-> t, project |-> p, dryRun |-> FALSE, noWriteBack |-> TRUE] :
        dt \in {NULL, <<"Eng">>}, dp \in {NULL, <<"Q3">>},
        t \in {NULL, <<"Eng">>, <<"Ops">>}, p \in {NULL, <<"Q1">>}}

InitPrecedence ==
    /\ files \in {FileSystem(PlacedDocument(p, t, s),
                              Document(NULL, <<"plain">>)) :
                     p \in {NULL, <<"Q1">>, <<"Q2">>},
                     t \in {NULL, <<"Eng">>, <<"Dev">>},
                     s \in ShapeSeqs({"plain", "existing"}, MaxStories)}
    /\ initialFiles = files
    /\ options \in PrecedenceOptionsSet
    /\ ImporterIdle
    /\ HarnessOff

SpecPrecedence == InitPrecedence /\ [][Next]_vars

(***************************************************************************)
(* importStories with the write-back on, over one document whose stories   *)
(* may share a title                                                       *)
(***************************************************************************)
\* the document with one story of each of the given shapes, the k-th story
\* titled titles[k]
TitledDocument(shapes, titles) ==
    JoinLines(Concat([k \in DOMAIN shapes |->
                        StoryShape(shapes[k], titles[k])])
                \o << <<>> >>)

TitledDocuments ==
    {TitledDocument(s, t) :
        s \in ShapeSeqs({"plain", "existing", "template", "unclosed"},
                        MaxStories),
        t \in [1..MaxStories -> {"A", "B"}]}

TitlesOptions ==
    [files |-> <<Paths[1]>>,
     config |-> [defaultTeam |-> <<"Eng">>, defaultProject |-> NULL,
                 defaultLabels |-> <<>>],
     team |-> NULL, project |-> NULL, dryRun |-> FALSE, noWriteBack |-> FALSE]

InitTitles ==
    /\ files \in {FileSystem(first, NoStoryDoc) : first \in TitledDocuments}
    /\ initialFiles = files
    /\ options = TitlesOptions
    /\ ImporterIdle
    /\ HarnessOff

SpecTitles == InitTitles /\ [][Next]_vars

(***************************************************************************)
(* writeBackIds on its own: called once with a text and an update set.     *)
(***************************************************************************)
\* the lines a free text is made of
WbLines ==
    {H2("A"), H2("B"), <<>>, YAML_OPEN, YAML_CLOSE, <<KEY_ID>>,
     <<KEY_URL, SP>> \o OldUrl("A"), TextLine}

FreeTexts ==
    {JoinLines(l) : l \in UNION {[1..n -> WbLines] : n \in 1..MaxLines}}

ShapedTexts ==
    {Document(t, s) : t \in {NULL, <<"Eng">>},
                      s \in ShapeSeqs(Shapes, MaxStories)}

WbUpdate(w, n) ==
    [title |-> <<w>>, linearId |-> remoteIdentifier(n),
     linearUrl |-> remoteUrl(n)]

WbUpdateSets ==
    {<<>>, <<WbUpdate("A", 7)>>, <<WbUpdate("B", 8)>>,
     <<WbUpdate("A", 7), WbUpdate("B", 8)>>}

InitWB ==
    /\ files = FileSystem(NoStoryDoc, NoStoryDoc)
    /\ initialFiles = files
    /\ options = CHOOSE o \in ImportOptionsSet : TRUE
    /\ ImporterIdle
    /\ wbContent \in FreeTexts \cup ShapedTexts
    /\ wbUpdates \in WbUpdateSets
    /\ wbResult = <<>>
    /\ wbPhase = "call"
    /\ ToolsOff

WriteBackIdsCall ==
    /\ wbPhase = "call"
    /\ wbResult' = writeBackIds("a.md", wbContent, wbUpdates)
    /\ wbPhase' = "returned"
    /\ UNCHANGED <<wbContent, wbUpdates, importerVars, toolVars>>

NextWB == WriteBackIdsCall

SpecWB == InitWB /\ [][NextWB]_vars

(***************************************************************************)
(* One Resolver instance on its own: a bounded sequence of method calls.   *)
(***************************************************************************)
\* method calls on the Resolver instance
MaxResolves == 2

\* the remote directory seen by the instance: two labels exist
ResolverDirectory ==
    [RemoteDirectory EXCEPT
       !.labels = Append(@, << <<"ui">>, <<"uuid-label-ui">> >>),
       !.projects =
          Append(@, << <<"uuid-team-ops", ":", "Q1">>, <<"uuid-proj-q1-ops">> >>),
       !.workflowStates =
          Append(@, << <<"uuid-team-ops", ":", "todo">>,
                       <<"uuid-state-todo-ops">> >>)]

TeamInputs == {<<"Eng">>, <<"Nope">>, <<"uuid-team-eng">>}
TeamIdInputs == {<<"uuid-team-eng">>, <<"uuid-team-ops">>}
ProjectInputs == {<<"Q1">>, <<"Nope">>, <<"uuid-proj-q1">>}
LabelInputs ==
    {<<>>, << <<"bug">> >>, << <<"bug">>, <<"nope">>, <<"ui">> >>,
     << <<"nope">>, <<"bug">> >>, << <<"ui">>, <<"bug">>, <<"bug">> >>,
     << <<"uuid-label-bug">> >>}
AssigneeInputs ==
    {<<"jane@x.io">>, <<"Jane">>, <<"joe@x.io">>, <<"uuid-user-jane">>}
StateInputs == {<<"todo">>, <<"Todo">>, <<"nope">>, <<"uuid-state-todo">>}

InitResolver ==
    /\ files = FileSystem(NoStoryDoc, NoStoryDoc)
    /\ initialFiles = files
    /\ options = CHOOSE o \in ImportOptionsSet : TRUE
    /\ ImporterIdle
    /\ HarnessOff

\* the method has settled: out is what it handed back
Resolved(op, name, teamId, fault, out) ==
    /\ rvResolver' = out.rs
    /\ rvLog' = Append(rvLog,
                       [op |-> op, name |-> name, teamId |-> teamId,
                        fault |-> fault, thrown |-> out.thrown,
                        value |-> out.value, calls |-> out.calls])
    /\ UNCHANGED <<importerVars, wbContent, wbUpdates, wbResult, wbPhase,
                   serializerVars, exporterVars, functionVars>>

ResolveTeamId ==
    /\ Len(rvLog) < MaxResolves
    /\ \E n \in TeamInputs, f \in {"none", "teams"} :
         Resolved("team", n, NULL, f,
                  resolveTeamId(rvResolver, ResolverDirectory, f, n))

ResolveProjectId ==
    /\ Len(rvLog) < MaxResolves
    /\ \E n \in ProjectInputs, t \in TeamIdInputs, f \in {"none", "projects"} :
         Resolved("project", n, t, f,
                  resolveProjectId(rvResolver, ResolverDirectory, f, n, t))

ResolveLabelIds ==
    /\ Len(rvLog) < MaxResolves
    /\ \E n \in LabelInputs, f \in {"none", "issueLabels"} :
         Resolved("labels", n, NULL, f,
                  resolveLabelIds(rvResolver, ResolverDirectory, f, n))

ResolveAssigneeId ==
    /\ Len(rvLog) < MaxResolves
    /\ \E n \in AssigneeInputs, f \in {"none", "users"} :
         Resolved("assignee", n, NULL, f,
                  resolveAssigneeId(rvResolver, ResolverDirectory, f, n))

ResolveWorkflowStateId ==
    /\ Len(rvLog) < MaxResolves
    /\ \E n \in StateInputs, t \in TeamIdInputs,
          f \in {"none", "workflowStates"} :
         Resolved("state", n, t, f,
                  resolveWorkflowStateId(rvResolver, ResolverDirectory, f, n, t))

NextResolver ==
    \/ ResolveTeamId
    \/ ResolveProjectId
    \/ ResolveLabelIds
    \/ ResolveAssigneeId
    \/ ResolveWorkflowStateId

SpecResolver == InitResolver /\ [][NextResolver]_vars

(***************************************************************************)
(* serializeStories on its own: a document is parsed, its stories and      *)
(* frontmatter are serialized and the text is parsed again (SpecRoundTrip),*)
(* or story records that came from anywhere are serialized and the text is *)
(* parsed (SpecSerializer).                                                *)
(***************************************************************************)
\* the documents handed to the parser first
RoundTripDocs ==
    {NoStoryDoc}
      \cup {Document(t, s) : t \in {NULL, <<"Eng">>},
                             s \in ShapeSeqs(Shapes \cup {"stranger", "sample"},
                                             MaxStories)}

\* a story with a title only
BareStory(w) ==
    [title |-> <<w>>, linearId |-> NULL, linearUrl |-> NULL,
     priority |-> NULL, labels |-> <<>>, estimate |-> NULL,
     assignee |-> NULL, status |-> NULL, body |-> <<>>,
     project |-> NULL, team |-> NULL]

\* the Story records handed to serializeStories
StoryRecords ==
    {BareStory("A"),
     [BareStory("B") EXCEPT !.body = <<"text", NL, NL, "text">>],
     [BareStory("C") EXCEPT !.linearId = OldId("C"),
                            !.linearUrl = OldUrl("C")],
     [BareStory("D") EXCEPT !.priority = <<"2">>,
                            !.labels = << <<"bug">>, <<"ui">> >>,
                            !.estimate = <<"3">>,
                            !.assignee = <<"jane@x.io">>,
                            !.status = <<"In", SP, "Progress">>,
                            !.body = TextLine],
     [BareStory("E") EXCEPT !.linearId = OldId("E"),
                            !.priority = <<"1">>,
                            !.status = <<"Todo">>]}

\* every sequence of at most n of them, the empty one included
StoryRecordSeqs(n) == UNION {[1..m -> StoryRecords] : m \in 0..n}

\* the frontmatter arguments: absent, empty, and with either field
SerializerFrontmatters ==
    {NoFrontmatter}
      \cup {[present |-> TRUE, project |-> p, team |-> t] :
              p \in {NULL, <<"Q1">>}, t \in {NULL, <<"Eng">>}}

\* the importer and the other harnesses at rest
OnlySerializer ==
    /\ files = FileSystem(NoStoryDoc, NoStoryDoc)
    /\ initialFiles = files
    /\ options = CHOOSE o \in ImportOptionsSet : TRUE
    /\ ImporterIdle
    /\ wbContent = <<>>
    /\ wbUpdates = <<>>
    /\ wbResult = <<>>
    /\ wbPhase = "off"
    /\ ResolverOff
    /\ ExporterOff
    /\ FunctionsOff

InitRoundTrip ==
    /\ OnlySerializer
    /\ szSource \in RoundTripDocs
    /\ szStories = <<>>
    /\ szFrontmatter = NoFrontmatter
    /\ szText = <<>>
    /\ szParsed = NoParsedFile
    /\ szPhase = "source"

InitSerializer ==
    /\ OnlySerializer
    /\ szSource = <<>>
    /\ szStories \in StoryRecordSeqs(MaxStories)
    /\ szFrontmatter \in SerializerFrontmatters
    /\ szText = <<>>
    /\ szParsed = NoParsedFile
    /\ szPhase = "call"

\* the source has been parsed into doc
SourceParsed(doc) ==
    /\ szStories' = doc.stories
    /\ szFrontmatter' = [present |-> TRUE,
                         project |-> doc.frontmatter.project,
                         team |-> doc.frontmatter.team]
    /\ szPhase' = IF doc.error = "none" THEN "call" ELSE "rejected"
    /\ UNCHANGED <<szSource, szText, szParsed>>

\* parseMarkdownFile(source, path)
ParseSource ==
    /\ szPhase = "source"
    /\ SourceParsed(parseMarkdownFile(szSource, Paths[1]))
    /\ UNCHANGED <<importerVars, wbContent, wbUpdates, wbResult, wbPhase,
                   resolverVars, exporterVars, functionVars>>

\* serializeStories(stories, frontmatter)
SerializeStories ==
    /\ szPhase = "call"
    /\ szText' = serializeStories(szStories, szFrontmatter)
    /\ szPhase' = "serialized"
    /\ UNCHANGED <<szSource, szStories, szFrontmatter, szParsed>>
    /\ UNCHANGED <<importerVars, wbContent, wbUpdates, wbResult, wbPhase,
                   resolverVars, exporterVars, functionVars>>

\* parseMarkdownFile(text, path) of the serialized text
ParseBack ==
    /\ szPhase = "serialized"
    /\ szParsed' = parseMarkdownFile(szText, Paths[1])
    /\ szPhase' = "parsed"
    /\ UNCHANGED <<szSource, szStories, szFrontmatter, szText>>
    /\ UNCHANGED <<importerVars, wbContent, wbUpdates, wbResult, wbPhase,
                   resolverVars, exporterVars, functionVars>>

NextRoundTrip == ParseSource \/ SerializeStories \/ ParseBack
SpecRoundTrip == InitRoundTrip /\ [][NextRoundTrip]_vars

NextSerializer == SerializeStories \/ ParseBack
SpecSerializer == InitSerializer /\ [][NextSerializer]_vars

(***************************************************************************)
(* exportStories, called once.  The call is taken in the three stretches   *)
(* between which it waits for the remote service: building the filter,     *)
(* fetching the issues, serializing and writing.                           *)
(***************************************************************************)
\* an issue of the remote service, titled w and numbered n
RemoteIssue(w, n) ==
    [identifier |-> <<"ENG", "-", n>>, number |-> n, teamKey |-> <<"ENG">>,
     url |-> <<"https://linear.app/issue/", "ENG", "-", n>>,
     title |-> <<w>>, description |-> NULL, priority |-> NULL,
     estimate |-> NULL, state |-> <<"Done">>, assignee |-> NULL,
     creator |-> <<"joe@x.io">>, labels |-> <<>>,
     project |-> <<"Q1">>, projectId |-> <<"uuid-proj-q1">>,
     team |-> <<"Eng">>]

\* the issues the remote service holds
RemoteIssues ==
    << [RemoteIssue("A", "1") EXCEPT !.description = TextLine,
                                     !.priority = <<"2">>,
                                     !.estimate = <<"3">>,
                                     !.state = <<"Todo">>,
                                     !.assignee = <<"jane@x.io">>,
                                     !.labels = << <<"bug">>, <<"ui">> >>],
       RemoteIssue("B", "2"),
       [RemoteIssue("C", "3") EXCEPT !.description = TextLine,
                                     !.state = <<"Todo">>,
                                     !.project = NULL,
                                     !.projectId = NULL] >>

ExportFilters ==
    {[project |-> p, issues |-> i, status |-> s, assignee |-> a,
      creator |-> NULL] :
        p \in {NULL, <<"Q1">>, <<"Nope">>},
        i \in {<<>>, << <<"eng", "-", "1">>, <<"ENG", "-", "3">> >>},
        s \in {NULL, <<"todo">>, <<"nope">>},
        a \in {NULL, <<"jane@x.io">>}}

ExportOptionsSet ==
    {[filters |-> f, team |-> t, outputPath |-> "out.md"] :
        f \in ExportFilters, t \in {NULL, <<"Eng">>, <<"Ops">>}}

ExportFaults == {"none", "teams", "projects", "issues"}

InitExport ==
    /\ files = FileSystem(NoStoryDoc, NoStoryDoc)
    /\ initialFiles = files
    /\ options = CHOOSE o \in ImportOptionsSet : TRUE
    /\ ImporterIdle
    /\ wbContent = <<>>
    /\ wbUpdates = <<>>
    /\ wbResult = <<>>
    /\ wbPhase = "off"
    /\ ResolverOff
    /\ SerializerOff
    /\ FunctionsOff
    /\ exOptions \in ExportOptionsSet
    /\ exFault \in ExportFaults
    /\ ExporterIdle
    /\ exPhase = "call"

\* the rest of the state, which an export leaves alone
ExportFrame ==
    UNCHANGED <<importerVars, wbContent, wbUpdates, wbResult, wbPhase,
                resolverVars, serializerVars, functionVars, exOptions,
                exFault>>

\* buildFilterInput has settled with built = [input, rs, calls]
FilterBuilt(built) ==
    /\ exFilter' = buildIssueFilter(built.input)
    /\ exCalls' = built.calls
    /\ exPhase' = "filter"
    /\ UNCHANGED <<exQueries, exIssues, exWrites, exResult>>

\* exportStories up to the filter: a new Resolver, buildFilterInput,
\* buildIssueFilter
ExportBuildFilter ==
    /\ exPhase = "call"
    /\ FilterBuilt(buildFilterInput(EmptyResolver, RemoteDirectory, exFault,
                                    exOptions.filters, exOptions.team))
    /\ ExportFrame

\* fetchIssues has settled with fetched = [thrown, issues, queries]
IssuesFetched(fetched) ==
    /\ exQueries' = fetched.queries
    /\ exIssues' = IF fetched.thrown = "" THEN fetched.issues ELSE <<>>
    /\ exPhase' = IF fetched.thrown = "" THEN "fetched" ELSE "thrown"
    /\ UNCHANGED <<exFilter, exCalls, exWrites, exResult>>

\* exportStories: fetchIssues(client, filter)
ExportFetch ==
    /\ exPhase = "filter"
    /\ IssuesFetched(fetchIssues(RemoteIssues, exFault, exFilter, PageSize))
    /\ ExportFrame

\* an export that leaves the file alone when there is no story
StoriesWrittenUnlessEmpty(stories) ==
    /\ exWrites' = IF stories = <<>> THEN exWrites
                   ELSE Append(exWrites,
                               [path |-> exOptions.outputPath,
                                text |-> serializeStories(
                                           stories,
                                           exportFrontmatter(exOptions))])
    /\ exResult' = [count |-> Len(stories),
                    outputPath |-> exOptions.outputPath]
    /\ exPhase' = "returned"
    /\ UNCHANGED <<exFilter, exCalls, exQueries, exIssues>>

\* the stories have been made of the issues
StoriesWritten(stories) ==
    /\ exWrites' = Append(exWrites,
                          [path |-> exOptions.outputPath,
                           text |-> serializeStories(
                                      stories, exportFrontmatter(exOptions))])
    /\ exResult' = [count |-> Len(stories),
                    outputPath |-> exOptions.outputPath]
    /\ exPhase' = "returned"
    /\ UNCHANGED <<exFilter, exCalls, exQueries, exIssues>>

\* exportStories from the fetched issues on: the stories, the frontmatter,
\* the text, the write and the return
ExportWrite ==
    /\ exPhase = "fetched"
    /\ StoriesWritten([k \in DOMAIN exIssues |->
                         issueToUserStory(exIssues[k])])
    /\ ExportFrame

NextExport == ExportBuildFilter \/ ExportFetch \/ ExportWrite
SpecExport == InitExport /\ [][NextExport]_vars

(***************************************************************************)
(* Calls that follow one another: importStories over two documents, called *)
(* again when it has returned, and one exportStories call beside them.     *)
(***************************************************************************)
RunsOptionsSet ==
    {[files |-> Paths,
      config |-> [defaultTeam |-> <<"Eng">>, defaultProject |-> NULL,
                  defaultLabels |-> <<>>],
      team |-> NULL, project |-> NULL, dryRun |-> FALSE, noWriteBack |-> n] :
        n \in BOOLEAN}

\* the export of the project Q1 of the team Eng
RunsExportOptions ==
    [filters |-> [project |-> <<"Q1">>, issues |-> <<>>, status |-> NULL,
                  assignee |-> NULL, creator |-> NULL],
     team |-> <<"Eng">>, outputPath |-> "out.md"]

InitRuns ==
    /\ files \in {FileSystem(Document(t, s), Document(<<"Eng">>, <<"plain">>)) :
                     t \in {NULL, <<"Dev">>},
                     s \in ShapeSeqs({"plain"}, MaxStories)}
    /\ initialFiles = files
    /\ options \in RunsOptionsSet
    /\ ImporterIdle
    /\ wbContent = <<>>
    /\ wbUpdates = <<>>
    /\ wbResult = <<>>
    /\ wbPhase = "off"
    /\ ResolverOff
    /\ SerializerOff
    /\ FunctionsOff
    /\ exOptions = RunsExportOptions
    /\ exFault = "none"
    /\ ExporterIdle
    /\ exPhase = "call"

\* exportStories, called while no importStories call is under way
ExportBetweenImports ==
    /\ pc \in {"idle", "done"}
    /\ NextExport

NextRuns ==
    \/ NextRepeat
    \/ ExportBetweenImports

SpecRuns == InitRuns /\ [][NextRuns]_vars

(***************************************************************************)
(* parseMarkdownFile on its own: called once with a free text.             *)
(***************************************************************************)
\* the lines a free text is made of
ParserLines ==
    {H2("A"), <<HASH2, SP>>, <<SP, HASH2, SP, "B">>, <<>>, TextLine,
     YAML_OPEN, <<KEY_ID, SP>> \o OldId("A"), YAML_CLOSE}

\* the texts of at most MaxLines lines, with and without a frontmatter
ParserTexts ==
    {JoinLines(Frontmatter(t) \o l) :
        t \in {NULL, <<"Eng">>},
        l \in UNION {[1..n -> ParserLines] : n \in 1..MaxLines}}

InitParser ==
    /\ OnlySerializer
    /\ szSource \in ParserTexts
    /\ szStories = <<>>
    /\ szFrontmatter = NoFrontmatter
    /\ szText = <<>>
    /\ szParsed = NoParsedFile
    /\ szPhase = "text"

\* parseMarkdownFile(text, path)
ParseMarkdownFile ==
    /\ szPhase = "text"
    /\ szParsed' = parseMarkdownFile(szSource, Paths[1])
    /\ szPhase' = "read"
    /\ UNCHANGED <<szSource, szStories, szFrontmatter, szText>>
    /\ UNCHANGED <<importerVars, wbContent, wbUpdates, wbResult, wbPhase,
                   resolverVars, exporterVars, functionVars>>

NextParser == ParseMarkdownFile
SpecParser == InitParser /\ [][NextParser]_vars

(***************************************************************************)
(* The helper functions on their own: called once with arguments drawn     *)
(* from a bounded set.                                                     *)
(***************************************************************************)
\* the importer and the other harnesses at rest
OnlyFunction ==
    /\ files = FileSystem(NoStoryDoc, NoStoryDoc)
    /\ initialFiles = files
    /\ options = CHOOSE o \in ImportOptionsSet : TRUE
    /\ ImporterIdle
    /\ wbContent = <<>>
    /\ wbUpdates = <<>>
    /\ wbResult = <<>>
    /\ wbPhase = "off"
    /\ ResolverOff
    /\ SerializerOff
    /\ ExporterOff

\* the function has returned out
Returned(out) ==
    /\ fnOutput' = out
    /\ fnPhase' = "returned"
    /\ UNCHANGED <<fnInput, importerVars, wbContent, wbUpdates, wbResult,
                   wbPhase, resolverVars, serializerVars, exporterVars>>

LabelNames == {<<"bug">>, <<"ui">>, <<"api">>}

\* the label sequences of at most n names, repeated names included
LabelSeqs(n) == UNION {[1..m -> LabelNames] : m \in 0..n}

InitLabels ==
    /\ OnlyFunction
    /\ fnInput \in {[storyLabels |-> a, defaultLabels |-> b] :
                       a \in LabelSeqs(MaxLabels), b \in LabelSeqs(MaxLabels)}
    /\ fnOutput = <<>>
    /\ fnPhase = "call"

\* deduplicateLabels(story.labels, options.config.defaultLabels)
DeduplicateLabels ==
    /\ fnPhase = "call"
    /\ Returned(deduplicateLabels(fnInput.storyLabels,
                                  fnInput.defaultLabels))

NextLabels == DeduplicateLabels
SpecLabels == InitLabels /\ [][NextLabels]_vars

\* the identifier lists of a filter: one team, two teams, a lower-case
\* key, and a text that is no identifier
IdentifierLists ==
    {<<>>,
     << <<"ENG", "-", "1">> >>,
     << <<"ENG", "-", "1">>, <<"ENG", "-", "3">> >>,
     << <<"eng", "-", "2">> >>,
     << <<"ENG", "-", "1">>, <<"OPS", "-", "2">> >>,
     << <<"bogus">> >>}

FilterInputs ==
    {[projectId |-> p, identifiers |-> i, statusName |-> s,
      assigneeEmail |-> a, creatorEmail |-> c] :
        p \in {NULL, <<"uuid-proj-q1">>},
        i \in IdentifierLists,
        s \in {NULL, <<"todo">>, <<"nope">>},
        a \in {NULL, <<"jane@x.io">>},
        c \in {NULL, <<"joe@x.io">>}}

InitFilter ==
    /\ OnlyFunction
    /\ fnInput \in FilterInputs
    /\ fnOutput = <<>>
    /\ fnPhase = "call"

\* buildIssueFilter(input)
BuildIssueFilter ==
    /\ fnPhase = "call"
    /\ Returned(buildIssueFilter(fnInput))

NextFilter == BuildIssueFilter
SpecFilter == InitFilter /\ [][NextFilter]_vars

(***************************************************************************)
(* Properties                                                              *)
(***************************************************************************)
\* the remote calls of one processStory call to the given client method
CallsOf(e, op) == SelectSeq(e.calls, LAMBDA c : c.op = op)

\* the team name processStory resolves for the story of a log entry
TeamNameOf(e) ==
    Coalesce(e.story.team, Coalesce(options.team, options.config.defaultTeam))

\* the remote service knows the team of the entry's story
TeamKnown(e) == cacheHas(RemoteDirectory.teams, TeamNameOf(e))

\* the fault of the entry struck a call the story issued
FaultHit(e) ==
    \/ e.fault = "teams" /\ CallsOf(e, "teams") # <<>>
    \/ e.fault \in {"createIssue", "reject"} /\ CallsOf(e, "createIssue") # <<>>
    \/ e.fault \in {"updateIssue", "reject"} /\ CallsOf(e, "updateIssue") # <<>>

RunLog == SelectSeq(storyLog, LAMBDA e : e.run = runs)

\* the entries of the current call for the k-th file of options.files
FileLog(k) == SelectSeq(RunLog, LAMBDA e : e.file = options.files[k])

\* the stories of the k-th file as it was before the first import
InitialStories(k) ==
    parseMarkdownFile(initialFiles[options.files[k]], options.files[k]).stories

\* the log has one entry per story, in the order of the document
LogFollowsStories(log, stories) ==
    /\ Len(log) = Len(stories)
    /\ \A j \in DOMAIN log :
         /\ log[j].index = j
         /\ log[j].story = stories[j]

\* the entries whose create call threw
ThrownCreates ==
    SelectSeq(RunLog, LAMBDA e : e.fault = "createIssue" /\ FaultHit(e))

\* the results are those of the log, in order, and a run whose stories are
\* all new and whose only failure is one create call that threw is counted
\* as one failed and the others created
ResultsFollowLog(log) ==
    /\ Len(results) = Len(log)
    /\ \A k \in DOMAIN results :
         /\ results[k].story = log[k].story
         /\ results[k].action = log[k].action
    /\ (/\ ~options.dryRun
        /\ Len(ThrownCreates) = 1
        /\ \A k \in DOMAIN log :
             /\ log[k].story.linearId = NULL
             /\ TeamKnown(log[k])
             /\ log[k].fault \in {"none", "createIssue"})
       => /\ summary.failed = 1
          /\ summary.created = Len(log) - 1
          /\ Len(summary.results) = Len(log)

\* C2: a failure in the resolution or in the create/update call of a story
\* gives that story a failed result carrying the error message and never
\* leaves importStories (only a parse error does); the loop goes on, so a run
\* that returns has one result per story of every document, in order; and
\* when all stories are new and the only failure is one create call that
\* throws, the summary has failed = 1, created = N - 1 and N results.
C2_FailureIsolatedToStory ==
    /\ pc = "thrown" => parsed.error # "none"
    /\ \A k \in DOMAIN storyLog :
         /\ storyLog[k].action = "failed" <=> storyLog[k].error # ""
         /\ FaultHit(storyLog[k]) => storyLog[k].action = "failed"
    /\ pc = "story" => Len(FileLog(fileIdx)) = storyIdx - 1
    /\ pc = "done" =>
         /\ summary.results = results
         /\ \A k \in DOMAIN options.files :
              LogFollowsStories(FileLog(k), InitialStories(k))
         /\ ResultsFollowLog(RunLog)

\* a run over three new stories in two documents whose first create call
\* threw: the two later stories were created
C2_Witness ==
    /\ pc = "done"
    /\ Len(RunLog) = 3
    /\ RunLog[1].fault = "createIssue"
    /\ FaultHit(RunLog[1])
    /\ RunLog[1].action = "failed"
    /\ RunLog[2].action = "created"
    /\ RunLog[3].action = "created"
    /\ RunLog[3].file # RunLog[1].file
    /\ summary.failed = 1
    /\ summary.created = 2

\* C4: in dry-run mode every story is skipped whatever its linearId, no
\* remote call of any kind is issued, and no file is written.
C4_DryRunSkipsEverything ==
    options.dryRun =>
      /\ calls = <<>>
      /\ writes = <<>>
      /\ files = initialFiles
      /\ issueCounter = 0
      /\ \A k \in DOMAIN storyLog :
           /\ storyLog[k].action = "skipped"
           /\ storyLog[k].calls = <<>>
      /\ \A k \in DOMAIN results : results[k].action = "skipped"
      /\ pc = "done" =>
           /\ summary.skipped = summary.total
           /\ \A k \in DOMAIN options.files :
                Len(FileLog(k)) = Len(InitialStories(k))

\* a dry run that returned after skipping a story with a linearId and a
\* story without one
C4_Witness ==
    /\ options.dryRun
    /\ pc = "done"
    /\ \E j, k \in DOMAIN results :
         /\ results[j].action = "skipped"
         /\ results[j].story.linearId # NULL
         /\ results[k].action = "skipped"
         /\ results[k].story.linearId = NULL

\* the stories of the k-th file created in the current call, as updates
CreatedUpdates(k) ==
    [j \in DOMAIN SelectSeq(FileLog(k), LAMBDA e : e.action = "created") |->
        [title |-> SelectSeq(FileLog(k),
                             LAMBDA e : e.action = "created")[j].story.title,
         linearId |-> SelectSeq(FileLog(k),
                                LAMBDA e : e.action = "created")[j].linearId,
         linearUrl |-> SelectSeq(FileLog(k),
                                 LAMBDA e : e.action = "created")[j].linearUrl]]

\* the Bun.write calls on the k-th file
WritesOf(k) == SelectSeq(writes, LAMBDA w : w.path = options.files[k])

\* the loop body of importStories for the k-th file has ended
FileFinished(k) == pc = "done" \/ (pc \in {"file", "story", "thrown"} /\ fileIdx > k)

\* C5: a file is written if and only if its stories have all been
\* processed, the run is neither dry-run nor no-write-back and at least one
\* of its stories was created; it is written once, with the editor's output
\* for the file's original text and exactly the created stories as updates;
\* a file that is not written keeps its original text.
C5_WritesExactlyCreated ==
    \A k \in DOMAIN options.files :
      /\ Len(WritesOf(k)) <= 1
      /\ WritesOf(k) # <<>>
           <=> (/\ FileFinished(k)
                /\ ~options.dryRun
                /\ ~options.noWriteBack
                /\ CreatedUpdates(k) # <<>>)
      /\ WritesOf(k) # <<>> =>
           /\ WritesOf(k)[1].updates = CreatedUpdates(k)
           /\ WritesOf(k)[1].original = initialFiles[options.files[k]]
           /\ WritesOf(k)[1].content = files[options.files[k]]
      /\ WritesOf(k) = <<>> =>
           files[options.files[k]] = initialFiles[options.files[k]]

\* a run that wrote a file in which one story was created and another
\* updated: the write carries the created story alone
C5_Witness ==
    /\ pc = "done"
    /\ Len(writes) = 1
    /\ Len(writes[1].updates) = 1
    /\ \E k \in DOMAIN storyLog :
         /\ storyLog[k].file = writes[1].path
         /\ storyLog[k].action = "updated"
    /\ files[writes[1].path] # initialFiles[writes[1].path]

\* C10: a parse error in one document does not abort the run: when
\* importStories has stopped, every document that has stories has had them
\* processed and their results are in the summary.
C10_ParseErrorDoesNotAbortRun ==
    pc \in {"done", "thrown"} =>
      /\ \A k \in DOMAIN options.files :
           Len(FileLog(k)) = Len(InitialStories(k))
      /\ Len(summary.results) = Len(RunLog)

\* C3: once a story has been created by an import with write-back, every
\* later import of the document parses a linearId for that story and
\* updates it: it issues no create call for it again.
C3_RepeatedImportUpdates ==
    \A j, k \in DOMAIN storyLog :
      (/\ storyLog[j].run < storyLog[k].run
       /\ storyLog[j].file = storyLog[k].file
       /\ storyLog[j].index = storyLog[k].index
       /\ storyLog[j].action = "created"
       /\ ~storyLog[j].noWriteBack)
      => /\ storyLog[k].story.linearId # NULL
         /\ CallsOf(storyLog[k], "createIssue") = <<>>

\* the lines of the text handed to writeBackIds and of the text returned
WbIn == SplitLines(wbContent)
WbOut == SplitLines(wbResult)

\* the titles of the update set
WbTitles == {wbUpdates[k].title : k \in DOMAIN wbUpdates}

\* the update supplied for a title
WbUpdateFor(title) ==
    wbUpdates[CHOOSE k \in DOMAIN wbUpdates : wbUpdates[k].title = title]

\* line k is the heading of a story of the update set
MatchedHeading(lines, k) ==
    IsH2(lines[k]) /\ headingTitle(lines[k]) \in WbTitles

\* the heading that line k belongs to: the last heading at or before k, 0
\* when k is before the first story
OwnerOf(lines, k) ==
    IF \E h \in 1..k : IsH2(lines[h])
    THEN CHOOSE h \in 1..k :
            IsH2(lines[h]) /\ \A g \in (h + 1)..k : ~IsH2(lines[g])
    ELSE 0

\* the indices of the lines that belong to no story of the update set
UntouchedIndices(lines) ==
    {k \in DOMAIN lines :
        OwnerOf(lines, k) = 0 \/ ~MatchedHeading(lines, OwnerOf(lines, k))}

\* the elements of a sequence at the given indices, in order
Restrict(lines, indices) ==
    [j \in 1..Cardinality(indices) |->
        lines[CHOOSE k \in indices :
                 Cardinality({m \in indices : m <= k}) = j]]

RECURSIVE IsSubsequence(_, _)
IsSubsequence(a, b) ==
    IF a = <<>> THEN TRUE
    ELSE IF b = <<>> THEN FALSE
    ELSE IF Head(a) = Head(b) THEN IsSubsequence(Tail(a), Tail(b))
    ELSE IsSubsequence(a, Tail(b))

\* C6: every line before the first story and every line of a story whose
\* title is not in the update set is in the output as it was, in the same
\* relative order.
C6_WriteBackIsolation ==
    wbPhase = "returned" =>
      IsSubsequence(Restrict(WbIn, UntouchedIndices(WbIn)), WbOut)

\* the story with its heading at h is in the update set, its fence opens at
\* o, after blank lines only, and closes at c, and no other line outside
\* h..c is the heading of a story of the update set
FencedStoryAt(lines, h, o, c) ==
    /\ h < o
    /\ o < c
    /\ MatchedHeading(lines, h)
    /\ \A k \in (h + 1)..(o - 1) : Trim(lines[k]) = <<>>
    /\ Trim(lines[o]) = YAML_OPEN
    /\ Trim(lines[c]) = YAML_CLOSE
    /\ \A k \in (o + 1)..(c - 1) : Trim(lines[k]) # YAML_CLOSE
    /\ \A k \in DOMAIN lines : (k < h \/ k > c) => ~MatchedHeading(lines, k)

\* the line starts with the key
HasKey(line, key) == line # <<>> /\ line[1] = key

\* what the claim expects for the fence o..c given the update u: identifier
\* and url lines replaced where they are, the absent ones appended before
\* the closing fence, identifier first, every other line as it was
ExpectedFenced(lines, o, c, u) ==
    SubSeq(lines, 1, o)
      \o [k \in 1..(c - o - 1) |->
            IF HasKey(lines[o + k], KEY_ID) THEN <<KEY_ID, SP>> \o u.linearId
            ELSE IF HasKey(lines[o + k], KEY_URL)
                 THEN <<KEY_URL, SP>> \o u.linearUrl
                 ELSE lines[o + k]]
      \o (IF \E k \in (o + 1)..(c - 1) : HasKey(lines[k], KEY_ID)
          THEN <<>> ELSE << <<KEY_ID, SP>> \o u.linearId >>)
      \o (IF \E k \in (o + 1)..(c - 1) : HasKey(lines[k], KEY_URL)
          THEN <<>> ELSE << <<KEY_URL, SP>> \o u.linearUrl >>)
      \o SubSeq(lines, c, Len(lines))

\* the output is the expected one for every fenced story of the input
FenceRewritten(lines, out) ==
    \A h, o, c \in DOMAIN lines :
      FencedStoryAt(lines, h, o, c)
        => out = ExpectedFenced(lines, o, c,
                                WbUpdateFor(headingTitle(lines[h])))

\* C7: for a story of the update set whose fence follows its title (blank
\* lines allowed) and is closed, the output is the input with each
\* linear_id / linear_url line of the fence replaced in place by the
\* supplied value and each absent one appended before the closing fence,
\* linear_id first; every other line is unchanged and in its place.
C7_FenceRewrittenInPlace ==
    wbPhase = "returned" => FenceRewritten(WbIn, WbOut)

\* a fence with a linear_id line and no linear_url line, with lines after
\* it: one line replaced, one appended, the others kept
C7_Witness ==
    /\ wbPhase = "returned"
    /\ \E h, o, c \in DOMAIN WbIn :
         /\ FencedStoryAt(WbIn, h, o, c)
         /\ \E k \in (o + 1)..(c - 1) : HasKey(WbIn[k], KEY_ID)
         /\ \A k \in (o + 1)..(c - 1) : ~HasKey(WbIn[k], KEY_URL)
         /\ c < Len(WbIn)
         /\ Len(WbOut) = Len(WbIn) + 1

\* the story with its heading at h is in the update set, the first line
\* after its title that is not blank is no opening fence, and no other line
\* is the heading of a story of the update set
UnfencedStoryAt(lines, h) ==
    /\ MatchedHeading(lines, h)
    /\ \A o \in (h + 1)..Len(lines) :
         (\A k \in (h + 1)..(o - 1) : Trim(lines[k]) = <<>>)
           => Trim(lines[o]) # YAML_OPEN
    /\ \A k \in DOMAIN lines : k # h => ~MatchedHeading(lines, k)

\* what the claim expects for the story at h given the update u: after the
\* title a blank line and a fence of the identifier and url lines, then the
\* lines of the story as they were
ExpectedInserted(lines, h, u) ==
    SubSeq(lines, 1, h)
      \o << <<>>, <<TICKS, YAML>>, <<KEY_ID, SP>> \o u.linearId,
            <<KEY_URL, SP>> \o u.linearUrl, <<TICKS>> >>
      \o SubSeq(lines, h + 1, Len(lines))

\* the output is the expected one for every story of the input without fence
FenceInserted(lines, out) ==
    \A h \in DOMAIN lines :
      UnfencedStoryAt(lines, h)
        => out = ExpectedInserted(lines, h,
                                  WbUpdateFor(headingTitle(lines[h])))

\* C8: for a story of the update set without a fence after its title, the
\* output has, directly after the title line, one blank line and a new
\* fence holding exactly the linear_id and the linear_url line, followed by
\* every original line of the story unchanged; and for every input
\* writeBackIds returns a text, of no fewer lines than the input.
C8_FenceInsertedAfterTitle ==
    /\ wbPhase = "call" =>
         Len(SplitLines(writeBackIds("a.md", wbContent, wbUpdates)))
           >= Len(WbIn)
    /\ wbPhase = "returned" => FenceInserted(WbIn, WbOut)

\* a story without fence that has a body, between two other stories' lines
C8_Witness ==
    /\ wbPhase = "returned"
    /\ \E h \in DOMAIN WbIn :
         /\ UnfencedStoryAt(WbIn, h)
         /\ 1 < h
         /\ h < Len(WbIn)
         /\ WbIn[h + 1] = TextLine
         /\ Len(WbOut) = Len(WbIn) + 5

\* C9: with an empty update set writeBackIds returns the text it was given,
\* token for token.
C9_EmptyUpdateSetIsIdentity ==
    (wbPhase = "returned" /\ wbUpdates = <<>>) => wbResult = wbContent

\* an empty update set applied to a text with a heading, a fence and no
\* newline at its end
C9_Witness ==
    /\ wbPhase = "returned"
    /\ wbUpdates = <<>>
    /\ wbResult = wbContent
    /\ \E h, o \in DOMAIN WbIn :
         /\ h < o
         /\ IsH2(WbIn[h])
         /\ Trim(WbIn[o]) = YAML_OPEN
    /\ WbIn[Len(WbIn)] # <<>>

\* the stories of the first k files of options.files, in order
RECURSIVE StoriesBefore(_)
StoriesBefore(k) ==
    IF k = 0 THEN <<>> ELSE StoriesBefore(k - 1) \o InitialStories(k)

\* the list holds one result per story of the earlier files and of the
\* first n stories of the current file, in their order
ResultsInOrder(list, earlier, current, n) ==
    /\ n <= Len(current)
    /\ Len(list) = Len(earlier) + n
    /\ \A k \in 1..Len(earlier) : list[k].story = earlier[k]
    /\ \A k \in 1..n : list[Len(earlier) + k].story = current[k]

\* C11: at every point of a run the result list holds one result for each
\* story processed so far, the files in the order of options.files and the
\* stories of a file in their order in the document, with no story left out
\* or processed ahead of an earlier one; the summary returned lists one
\* result per story of every file in that order, whatever the outcomes.
C11_ResultsInDocumentOrder ==
    /\ pc = "story" =>
         ResultsInOrder(results, StoriesBefore(fileIdx - 1), parsed.stories,
                        storyIdx - 1)
    /\ pc = "file" =>
         ResultsInOrder(results, StoriesBefore(fileIdx - 1), <<>>, 0)
    /\ pc = "done" =>
         /\ ResultsInOrder(summary.results,
                           StoriesBefore(Len(options.files)), <<>>, 0)
         /\ summary.total = Len(summary.results)

\* a returned run over two stories of the first file and one of the second
\* with three different outcomes
C11_Witness ==
    /\ pc = "done"
    /\ Len(InitialStories(1)) = 2
    /\ Len(InitialStories(2)) = 1
    /\ Len(summary.results) = 3
    /\ summary.results[1].action = "updated"
    /\ summary.results[2].action = "failed"
    /\ summary.results[3].action = "created"
    /\ summary.results[1].story.title # summary.results[2].story.title

\* the methods that resolve one name
SingleOps == {"team", "project", "assignee", "state"}

\* two entries of the log are calls of the same method with the same input
SameResolution(e, f) ==
    /\ e.op = f.op
    /\ e.name = f.name
    /\ e.teamId = f.teamId

\* the call resolved its name to an identifier
ResolvedToMatch(e) == e.thrown = "" /\ e.value # NULL

\* the number of remote lookups of a label name a call issued
LabelLookups(e, n) ==
    Cardinality({k \in DOMAIN e.calls : e.calls[k] = Call("issueLabels", n)})

\* the label names of a call that returned and that the remote service knows
MatchedLabels(e) ==
    {e.name[k] : k \in {m \in DOMAIN e.name :
                          /\ e.thrown = ""
                          /\ cacheHas(ResolverDirectory.labels, e.name[m])}}

\* an earlier and a later call of the log
CachedAfter(e, f) ==
    /\ (e.op \in SingleOps /\ SameResolution(e, f) /\ ResolvedToMatch(e))
         => /\ f.calls = <<>>
            /\ f.thrown = ""
            /\ f.value = e.value
            /\ Len(e.calls) <= 1
    /\ (e.op = "labels" /\ f.op = "labels")
         => \A n \in MatchedLabels(e) :
              /\ LabelLookups(f, n) = 0
              /\ LabelLookups(e, n) <= 1
              /\ (e.name = <<n>> /\ f.name = <<n>>)
                   => (f.thrown = "" /\ f.value = e.value /\ f.calls = <<>>)

\* the first call on a new instance of a name that is looked up and matches
FirstLookup(e) ==
    /\ (e.op \in {"team", "project"} /\ ResolvedToMatch(e) /\ ~isUuid(e.name))
         => Len(e.calls) = 1
    /\ (e.op \in {"assignee", "state"} /\ ResolvedToMatch(e))
         => Len(e.calls) = 1
    /\ e.op = "labels" => \A n \in MatchedLabels(e) : LabelLookups(e, n) = 1

\* C12: on one Resolver instance, once a team name, a project name within a
\* team, a label name, an assignee string or a workflow-state name within a
\* team has resolved to a match, every later resolution of the same input
\* issues no remote call and returns the same identifier; the first
\* resolution on a new instance issues exactly one lookup for the name, so
\* two resolutions of the same name issue exactly one.
C12_CachedResolutionIssuesOneLookup ==
    /\ \A i, j \in DOMAIN rvLog : i < j => CachedAfter(rvLog[i], rvLog[j])
    /\ rvLog # <<>> => FirstLookup(rvLog[1])

\* a team name resolved twice: one lookup, then none, the same identifier
C12_Witness ==
    /\ Len(rvLog) = 2
    /\ rvLog[1].op = "team"
    /\ rvLog[2].op = "team"
    /\ rvLog[1].name = <<"Eng">>
    /\ rvLog[2].name = <<"Eng">>
    /\ Len(rvLog[1].calls) = 1
    /\ rvLog[2].calls = <<>>
    /\ rvLog[2].value = rvLog[1].value
    /\ rvLog[2].value # NULL

\* the call handed its input back without a remote lookup
PassedThrough(e) ==
    /\ e.thrown = ""
    /\ e.value = e.name
    /\ e.calls = <<>>

ProjectNameOf(e) ==
    Coalesce(e.story.project,
             Coalesce(options.project, options.config.defaultProject))

\* the story of the entry needs no project or the remote service knows it
\* within the story's team
ProjectKnown(e) ==
    \/ ProjectNameOf(e) = NULL
    \/ cacheHas(RemoteDirectory.projects,
                cacheGet(RemoteDirectory.teams, TeamNameOf(e))
                  \o <<":">> \o ProjectNameOf(e))

\* the remote service has no user for the assignee of the entry's story
AssigneeUnmatched(e) ==
    /\ e.story.assignee # NULL
    /\ ~cacheHas(RemoteDirectory.usersByEmail, e.story.assignee)
    /\ ~cacheHas(RemoteDirectory.usersByDisplayName, e.story.assignee)

\* the remote service has no workflow state for the status of the story
StatusUnmatched(e) ==
    /\ e.story.status # NULL
    /\ ~cacheHas(RemoteDirectory.workflowStates,
                 cacheGet(RemoteDirectory.teams, TeamNameOf(e))
                   \o <<":">> \o toLowerCase(e.story.status))

\* the outcome of one story whose lookups and calls all answered
UnmatchedOutcome(e) ==
    /\ ~TeamKnown(e)
         => /\ e.action = "failed"
            /\ e.error = "ResolverError: Team not found"
            /\ Len(e.calls) = 1
            /\ Len(CallsOf(e, "teams")) = 1
    /\ (TeamKnown(e) /\ ~ProjectKnown(e))
         => /\ e.action = "failed"
            /\ e.error = "ResolverError: Project not found"
            /\ Len(CallsOf(e, "projects")) = 1
            /\ CallsOf(e, "createIssue") = <<>>
            /\ CallsOf(e, "updateIssue") = <<>>
    /\ (TeamKnown(e) /\ ProjectKnown(e))
         => /\ e.action \in {"created", "updated"}
            /\ e.error = ""
            /\ AssigneeUnmatched(e) =>
                 resolveAssigneeId(EmptyResolver, RemoteDirectory, "none",
                                   e.story.assignee)
                   = Outcome("", NULL,
                             [EmptyResolver EXCEPT
                                !.userCache = <<<<e.story.assignee, NULL>>>>],
                             <<Call("users", e.story.assignee)>>)
            /\ StatusUnmatched(e) =>
                 LET teamId == cacheGet(RemoteDirectory.teams, TeamNameOf(e))
                     found == resolveWorkflowStateId(
                                EmptyResolver, RemoteDirectory, "none",
                                e.story.status, teamId)
                 IN found.thrown = "" /\ found.value = NULL

\* C14: with zero matches team resolution and project resolution raise a
\* ResolverError, and the story is failed with that error and neither
\* created nor updated; an assignee or a status without a match raises
\* nothing, and a story whose team and project resolve is created or
\* updated although its assignee or status has no match.
C14_UnmatchedTeamOrProjectFailsOthersDoNot ==
    \A k \in DOMAIN storyLog :
      storyLog[k].fault = "none" => UnmatchedOutcome(storyLog[k])

\* a run with a story created although neither its assignee nor its status
\* is known and a story failed because its team is not known
C14_Witness ==
    /\ pc = "done"
    /\ \E k \in DOMAIN storyLog :
         /\ storyLog[k].fault = "none"
         /\ AssigneeUnmatched(storyLog[k])
         /\ StatusUnmatched(storyLog[k])
         /\ Len(CallsOf(storyLog[k], "users")) = 1
         /\ storyLog[k].action = "created"
    /\ \E k \in DOMAIN storyLog :
         /\ storyLog[k].fault = "none"
         /\ ~TeamKnown(storyLog[k])
         /\ storyLog[k].action = "failed"

\* the identifiers of the names the remote service knows, in input order
RECURSIVE KnownLabelIds(_)
KnownLabelIds(names) ==
    IF names = <<>> THEN <<>>
    ELSE (IF cacheHas(ResolverDirectory.labels, Head(names))
          THEN <<cacheGet(ResolverDirectory.labels, Head(names))>>
          ELSE <<>>) \o KnownLabelIds(Tail(names))

\* C15: while the remote service answers, label resolution raises nothing
\* and returns the identifiers of exactly the names that have a match, one
\* per such input name and in input order, whether looked up or cached;
\* for zero names it returns the empty sequence and issues no remote call
\* at all.
C15_LabelResolutionBestEffort ==
    \A k \in DOMAIN rvLog :
      rvLog[k].op = "labels" =>
        /\ rvLog[k].fault = "none" =>
             /\ rvLog[k].thrown = ""
             /\ rvLog[k].value = KnownLabelIds(rvLog[k].name)
             /\ Len(rvLog[k].calls) <= Len(rvLog[k].name)
        /\ rvLog[k].name = <<>> =>
             /\ rvLog[k].thrown = ""
             /\ rvLog[k].value = <<>>
             /\ rvLog[k].calls = <<>>

\* three names of which the second is unknown, after a call that cached the
\* first: two identifiers in input order
C15_Witness ==
    /\ Len(rvLog) = 2
    /\ rvLog[1].op = "labels"
    /\ rvLog[1].name = << <<"nope">>, <<"bug">> >>
    /\ rvLog[1].value = << <<"uuid-label-bug">> >>
    /\ rvLog[2].op = "labels"
    /\ rvLog[2].name = << <<"bug">>, <<"nope">>, <<"ui">> >>
    /\ rvLog[2].thrown = ""
    /\ rvLog[2].value = << <<"uuid-label-bug">>, <<"uuid-label-ui">> >>
    /\ Len(rvLog[2].calls) = 2

\* the text parsed last is a document with the frontmatter and the stories
\* that were serialized
ReadsBackTheSame ==
    /\ szParsed.error = "none"
    /\ szParsed.frontmatter.project = szFrontmatter.project
    /\ szParsed.frontmatter.team = szFrontmatter.team
    /\ Len(szParsed.stories) = Len(szStories)
    /\ \A k \in DOMAIN szStories : szParsed.stories[k] = szStories[k]

\* C16: the stories and the frontmatter of a document the parser made,
\* serialized and parsed again, come back as the same frontmatter and the
\* same stories in the same order, every field and the body the same.
C16_ParseSerializeRoundTrip ==
    szPhase = "parsed" => ReadsBackTheSame

\* the fields of a story that the serializer writes into its section
SectionFields(story) ==
    [title |-> story.title, linearId |-> story.linearId,
     linearUrl |-> story.linearUrl, priority |-> story.priority,
     labels |-> story.labels, estimate |-> story.estimate,
     assignee |-> story.assignee, status |-> story.status,
     body |-> story.body]

\* the text parsed last is a document equivalent to what was serialized
ReadsBackEquivalent ==
    /\ szParsed.error = "none"
    /\ szParsed.frontmatter.project = szFrontmatter.project
    /\ szParsed.frontmatter.team = szFrontmatter.team
    /\ Len(szParsed.stories) = Len(szStories)
    /\ \A k \in DOMAIN szStories :
          SectionFields(szParsed.stories[k]) = SectionFields(szStories[k])

\* C17: whatever sequence of stories, the empty one included, and whatever
\* frontmatter serializeStories is given, the parser accepts the text it
\* makes and reads an equivalent document from it.
C17_SerializedTextParsesBack ==
    szPhase = "parsed" => ReadsBackEquivalent

\* C18: whatever sequence of stories, the empty one included, and whatever
\* frontmatter (given, empty or left out) serializeStories is given, the
\* text it returns ends with a newline.
C18_OutputEndsWithNewline ==
    szPhase \in {"serialized", "parsed"}
      => szText # <<>> /\ szText[Len(szText)] = NL

\* the export was given a project and a team and could not resolve the
\* project under the team
ProjectResolutionFailed ==
    /\ exOptions.filters.project # NULL
    /\ exOptions.team # NULL
    /\ resolveFilterProject(
          resolveTeamId(EmptyResolver, RemoteDirectory, exFault,
                        exOptions.team),
          RemoteDirectory, exFault, exOptions.filters.project).thrown # ""

\* C19: when an export is given a project and a team and resolving the
\* project (or the team it is scoped to) fails, the export goes on and the
\* project condition of the remote query is the project name as given.
C19_FailedResolutionPassesRawProject ==
    (exPhase \in {"filter", "fetched", "returned", "thrown"}
       /\ ProjectResolutionFailed)
      => /\ exPhase = "thrown" => exFault = "issues"
         /\ exFilter.project = exOptions.filters.project

\* the lines of the text that the parser takes as story boundaries
HeadingLines(lines) == {k \in DOMAIN lines : IsH2(lines[k])}

\* the lines of the text that open a metadata block
FenceLines(lines) == {k \in DOMAIN lines : Trim(lines[k]) = YAML_OPEN}

\* when there is no record the written text has no heading and no fence
WrittenFor(lines, count) ==
    count = 0 => HeadingLines(lines) = {} /\ FenceLines(lines) = {}

\* C20: an export that returns has written the output file exactly once,
\* to the path it was given, also when no record matched; it returns that
\* path and the number of records fetched; when no record matched the
\* text written has no second-level heading and no metadata block.
\* Nothing is written before the return, and an export rejects only when
\* the remote query fails.
C20_ExportWritesOnceAndReturnsCount ==
    /\ exPhase \in {"off", "call", "filter", "fetched", "thrown"}
          => exWrites = <<>>
    /\ exPhase = "thrown" => exFault = "issues"
    /\ exPhase = "returned"
          => /\ Len(exWrites) = 1
             /\ exWrites[1].path = exOptions.outputPath
             /\ exResult.outputPath = exOptions.outputPath
             /\ exResult.count = Len(exIssues)
             /\ WrittenFor(SplitLines(exWrites[1].text), exResult.count)

\* an export that found no record has returned
C20_Witness ==
    /\ exPhase = "returned"
    /\ exIssues = <<>>
    /\ exQueries # <<>>
    /\ exResult.count = 0
    /\ Len(exWrites) = 1

\* the gateway call the fault of the entry struck: "" when it struck none
StruckGatewayCall(e) ==
    IF e.fault \in {"createIssue", "reject"} /\ CallsOf(e, "createIssue") # <<>>
    THEN "create"
    ELSE IF e.fault \in {"updateIssue", "reject"}
            /\ CallsOf(e, "updateIssue") # <<>>
         THEN "update"
         ELSE ""

\* the LinearApiError the gateway raises for the struck call of the entry
GatewayErrorOf(e) ==
    IF StruckGatewayCall(e) = "create"
    THEN IF e.fault = "reject"
         THEN "LinearApiError: Failed to create issue"
         ELSE "LinearApiError: Failed to create issue - Error: createIssue"
    ELSE IF e.fault = "reject"
         THEN "LinearApiError: Failed to update issue"
         ELSE "LinearApiError: Failed to update issue - Error: updateIssue"

\* the entries of the log from the k-th on are recorded as C21 says
GatewayFailuresRecorded(log) ==
    \A k \in DOMAIN log :
       StruckGatewayCall(log[k]) # ""
         => /\ log[k].action = "failed"
            /\ log[k].error \in LinearApiErrors
            /\ log[k].error = GatewayErrorOf(log[k])
            /\ log[k].linearId = NULL

\* C21: whether the remote service answers a create or update call with
\* success = false or the call itself throws, createIssue / updateIssue
\* raise a LinearApiError and nothing else, and the importer records the
\* story as failed with that error's message.
C21_GatewayFailuresAreLinearApiErrors ==
    /\ GatewayFailuresRecorded(storyLog)
    /\ \A fault \in FaultKinds \cup {"none"} :
          /\ createIssue(EmptyResolver, 0, fault,
                         [title |-> <<"A">>, teamId |-> <<"uuid-team-eng">>,
                          projectId |-> NULL]).thrown
                \in LinearApiErrors \cup {""}
          /\ updateIssue(EmptyResolver, fault, OldId("A"),
                         [title |-> <<"A">>]).thrown
                \in LinearApiErrors \cup {""}

\* a create call that threw has been recorded, after a story that went well
C21_Witness ==
    \E k \in DOMAIN storyLog :
       /\ k > 1
       /\ storyLog[k].fault = "createIssue"
       /\ StruckGatewayCall(storyLog[k]) = "create"
       /\ storyLog[k].action = "failed"
       /\ storyLog[k].error
            = "LinearApiError: Failed to create issue - Error: createIssue"

\* the issues of the remote service that satisfy the filter
MatchingIssues(filter) ==
    SelectSeq(RemoteIssues, LAMBDA issue : issueMatches(issue, filter))

\* the page the remote service hands out for the k-th query
PageOf(queries, k) ==
    issuesPage(RemoteIssues, queries[k].filter, queries[k].after, PageSize)

\* the nodes of the pages of the queries from the k-th on, in page order
RECURSIVE NodesFrom(_, _)
NodesFrom(queries, k) ==
    IF k > Len(queries) THEN <<>>
    ELSE PageOf(queries, k).nodes \o NodesFrom(queries, k + 1)

\* the queries walk the pages and the issues are what the pages held
FetchedEveryPage(queries, issues, filter, matching) ==
    /\ queries # <<>>
    /\ \A k \in DOMAIN queries : queries[k].filter = filter
    /\ queries[1].after = 0
    /\ \A k \in 2..Len(queries) :
          /\ PageOf(queries, k - 1).hasNextPage
          /\ queries[k].after = PageOf(queries, k - 1).endCursor
    /\ ~PageOf(queries, Len(queries)).hasNextPage
    /\ issues = NodesFrom(queries, 1)
    /\ issues = matching

\* C22: fetchIssues asks for the first page without a cursor, for each
\* following page with the end cursor of the page before as long as that
\* page reports a next page, stops after the first page that reports none,
\* and returns the nodes of all pages in page order, which are all the
\* matching issues, each once.
C22_FetchIssuesWalksEveryPage ==
    exPhase \in {"fetched", "returned"}
      => FetchedEveryPage(exQueries, exIssues, exFilter,
                          MatchingIssues(exFilter))

\* issues that came in more than one page have been fetched
C22_Witness ==
    /\ exPhase = "fetched"
    /\ Len(exQueries) >= 2
    /\ Len(exIssues) = Len(RemoteIssues)

\* the story boundary lines of a text after its frontmatter, in order
BoundaryLines(content) == SelectSeq(SplitLines(matter(content).content), IsH2)

\* one story per boundary line, in order, titled with the trimmed text
\* after the marker
OneStoryPerBoundary(stories, boundaries) ==
    /\ Len(stories) >= 1
    /\ Len(stories) = Len(boundaries)
    /\ \A k \in DOMAIN stories :
          k <= Len(boundaries)
            => stories[k].title = Trim(DropFirst(boundaries[k], 2))

\* what C23 says of a text, its boundary lines and what the parser made
ParsedByBoundaries(doc, boundaries) ==
    /\ doc.error = "ParseError" <=> boundaries = <<>>
    /\ doc.error = "ParseError" => doc.filePath = Paths[1]
    /\ doc.error = "none" => OneStoryPerBoundary(doc.stories, boundaries)

\* C23: the parser fails with a ParseError naming the document exactly when
\* the text after the frontmatter has no line starting with "## "; when it
\* succeeds it returns at least one story, one per such line and in their
\* order, each titled with the trimmed text after the marker, so that what
\* stands before the first such line belongs to no story.
C23_OneStoryPerBoundaryLine ==
    szPhase = "read" => ParsedByBoundaries(szParsed, BoundaryLines(szSource))

\* the indexes of the boundary lines, in order
BoundaryIndexes(lines) ==
    SelectSeq([k \in DOMAIN lines |-> k], LAMBDA k : IsH2(lines[k]))

\* the lines of the k-th story section after its title line
SectionRest(lines, idx, k) ==
    SubSeq(lines, idx[k] + 1,
           IF k < Len(idx) THEN idx[k + 1] - 1 ELSE Len(lines))

\* the first line at or after the j-th that satisfies Test, 0 when none
FirstLine(rest, j, Test(_)) ==
    IF \E c \in j..Len(rest) : Test(rest[c])
    THEN CHOOSE c \in j..Len(rest) :
           Test(rest[c]) /\ \A d \in j..(c - 1) : ~Test(rest[d])
    ELSE 0

IsOpeningFence(line) == Trim(line) = YAML_OPEN
IsClosingFence(line) == Trim(line) = YAML_CLOSE
IsNotBlank(line) == Trim(line) # <<>>

\* the metadata lines and the body C24 gives a section, open being the
\* first line that is not blank and close the first closing fence after it
SectionReading(rest, open, close) ==
    IF open # 0 /\ IsOpeningFence(rest[open]) /\ close # 0
    THEN [metadata |-> SubSeq(rest, open + 1, close - 1),
          body |-> Trim(JoinLines(SubSeq(rest, close + 1, Len(rest))))]
    ELSE [metadata |-> <<>>, body |-> Trim(JoinLines(rest))]

SectionExpected(rest, open) ==
    SectionReading(rest, open,
                   IF open = 0 THEN 0
                   ELSE FirstLine(rest, open + 1, IsClosingFence))

\* the story has the identifier and the body of the reading
StoryReadAs(story, reading) ==
    /\ story.linearId = extractStringOrNull(yamlGet(reading.metadata, KEY_ID))
    /\ story.body = reading.body

\* every story is read from its section as C24 says
SectionsReadAs(stories, lines, idx) ==
    \A k \in DOMAIN stories :
       StoryReadAs(stories[k],
                   SectionExpected(SectionRest(lines, idx, k),
                                   FirstLine(SectionRest(lines, idx, k), 1,
                                             IsNotBlank)))

\* C24: a fenced metadata block is recognised only right after the title
\* line of a story, blank lines apart: then the metadata is what stands
\* between the fences and the body is all that follows the closing fence
\* up to the next boundary; otherwise the body is all that follows the
\* title line up to the next boundary and the metadata fields are empty.
\* No text of the section but the metadata block is left out of the body.
C24_MetadataBlockOnlyAfterTitle ==
    (szPhase = "read" /\ szParsed.error = "none"
       /\ Len(szParsed.stories) = Len(BoundaryLines(szSource))
       /\ IsH2(SplitLines(matter(szSource).content)[1]))
      => SectionsReadAs(szParsed.stories,
                        SplitLines(matter(szSource).content),
                        BoundaryIndexes(SplitLines(matter(szSource).content)))

\* the first of the three that is present, NULL when none is
FirstPresent(a, b, c) == IF a # NULL THEN a ELSE IF b # NULL THEN b ELSE c

\* the lookups of the entry are for the team and the project given, and a
\* story without a team is failed without any remote call
PlacedAs(e, k, team, project) ==
    /\ \A c \in DOMAIN e.calls :
          /\ e.calls[c].op = "teams" => e.calls[c].arg = team
          /\ e.calls[c].op = "projects"
                => /\ project # NULL
                   /\ e.calls[c].arg
                        = cacheGet(RemoteDirectory.teams, team)
                            \o <<":">> \o project
    /\ team = NULL
          => /\ e.action = "failed"
             /\ e.error
                  = "No team specified for story and no default team configured"
             /\ e.calls = <<>>
    /\ (team # NULL /\ k = 1 /\ e.fault = "none")
          => /\ CallsOf(e, "teams") = <<Call("teams", team)>>
             /\ cacheHas(RemoteDirectory.teams, team)
                  => IF project = NULL
                     THEN /\ CallsOf(e, "projects") = <<>>
                          /\ e.action \in {"created", "updated"}
                     ELSE Len(CallsOf(e, "projects")) = 1

\* every entry of the log is placed by the precedence of C25
PlacedByPrecedence(log, opts) ==
    \A k \in DOMAIN log :
       PlacedAs(log[k], k,
                FirstPresent(log[k].story.team, opts.team,
                             opts.config.defaultTeam),
                FirstPresent(log[k].story.project, opts.project,
                             opts.config.defaultProject))

FirstIndex(seq, name) ==
    CHOOSE k \in DOMAIN seq :
       seq[k] = name /\ \A j \in 1..(k - 1) : seq[j] # name

\* merged holds every name of all once, in the order of their first
\* occurrences in all
MergedInOrder(merged, all) ==
    /\ \A i, j \in DOMAIN merged : merged[i] = merged[j] => i = j
    /\ \A k \in DOMAIN all : \E i \in DOMAIN merged : merged[i] = all[k]
    /\ \A i \in DOMAIN merged : \E k \in DOMAIN all : all[k] = merged[i]
    /\ \A i, j \in DOMAIN merged :
          i < j => FirstIndex(all, merged[i]) < FirstIndex(all, merged[j])

\* C26: the labels of a story are its own labels followed by the default
\* labels of the run without the repeated names: no name twice, every name
\* of both sequences, in the order of their first occurrences, the story's
\* labels first.
C26_LabelsMergedInOrder ==
    fnPhase = "returned"
      => MergedInOrder(fnOutput,
                       fnInput.storyLabels \o fnInput.defaultLabels)

\* labels that share a name with the default labels have been merged
C26_Witness ==
    /\ fnPhase = "returned"
    /\ fnInput.storyLabels = << <<"ui">>, <<"bug">> >>
    /\ fnInput.defaultLabels = << <<"bug">>, <<"api">> >>
    /\ fnOutput = << <<"ui">>, <<"bug">>, <<"api">> >>

\* the identifier as the remote service writes it
CanonicalIdentifier(id) ==
    IF id = <<>> THEN id ELSE <<upperToken(Head(id))>> \o Tail(id)

\* the issue satisfies every condition the input supplies
SatisfiesInput(issue, input) ==
    /\ input.projectId # NULL => issue.projectId = input.projectId
    /\ input.identifiers # <<>>
          => \E k \in DOMAIN input.identifiers :
                CanonicalIdentifier(input.identifiers[k]) = issue.identifier
    /\ input.statusName # NULL
          => toLowerCase(issue.state) = toLowerCase(input.statusName)
    /\ input.assigneeEmail # NULL => issue.assignee = input.assigneeEmail
    /\ input.creatorEmail # NULL => issue.creator = input.creatorEmail

\* the input supplies no condition
NoCondition(input) ==
    /\ input.projectId = NULL
    /\ input.identifiers = <<>>
    /\ input.statusName = NULL
    /\ input.assigneeEmail = NULL
    /\ input.creatorEmail = NULL

\* the filter selects the issues that satisfy the input, and is empty for
\* an input without condition
FilterSelects(filter, input) ==
    /\ \A k \in DOMAIN RemoteIssues :
          issueMatches(RemoteIssues[k], filter)
            <=> SatisfiesInput(RemoteIssues[k], input)
    /\ NoCondition(input) => filter = NoFilter

\* C27: buildIssueFilter turns every condition of its input into a
\* condition of the filter, all of them to hold together, and an input
\* without condition into the empty filter; the filter built from a list of
\* identifiers selects the issues whose identifier is in the list and no
\* other, whether the list names one team or several.
C27_FilterSelectsSuppliedConditions ==
    fnPhase = "returned" => FilterSelects(fnOutput, fnInput)

\* the label names of a call that returned and that the remote service
\* does not know
UnmatchedLabels(e) ==
    {e.name[k] : k \in {m \in DOMAIN e.name :
                          /\ e.thrown = ""
                          /\ ~cacheHas(ResolverDirectory.labels, e.name[m])}}

\* an earlier call that found no match and a later call of the log
MissCachedAfter(e, f) ==
    /\ (e.op \in {"assignee", "state"} /\ SameResolution(e, f)
           /\ e.thrown = "" /\ e.value = NULL)
         => /\ f.calls = <<>>
            /\ f.thrown = ""
            /\ f.value = NULL
    /\ (e.op = "labels" /\ f.op = "labels")
         => \A n \in UnmatchedLabels(e) :
              LabelLookups(f, n) = 0

\* C28: on one Resolver instance, once a label name, an assignee string or
\* a workflow-state name within a team has been looked up without a match,
\* every later resolution of the same key issues no remote lookup and gives
\* the same absent (for a label: skipped) outcome.
C28_UnmatchedKeysAreMemoized ==
    \A i, j \in DOMAIN rvLog : i < j => MissCachedAfter(rvLog[i], rvLog[j])

\* two calls of the log use one cache key: the same method and team, and the
\* same name (for a workflow state: the same name up to letter case)
SameKey(e, f) ==
    /\ e.op = f.op
    /\ e.teamId = f.teamId
    /\ IF e.op = "state" THEN toLowerCase(e.name) = toLowerCase(f.name)
                          ELSE e.name = f.name

\* the calls before rvLog[j] that returned under the cache key of rvLog[j]
StoredBefore(j) ==
    {i \in 1..(j - 1) : SameKey(rvLog[i], rvLog[j]) /\ rvLog[i].thrown = ""}

\* the least element of a non-empty set of indexes
Least(S) == CHOOSE i \in S : \A k \in S : i <= k

\* the remote lookup a project or workflow-state call issues for its key
ScopedLookup(e) ==
    <<Call(IF e.op = "project" THEN "projects" ELSE "workflowStates",
           e.teamId \o <<":">> \o e.name)>>

\* rvLog[j] is answered by its own lookup when no call before it stored its
\* key, and by the value of the first lookup of its key otherwise
ScopedKey(j) ==
    LET f == rvLog[j]
    IN (f.op \in {"project", "state"}
          /\ ~(f.op = "project" /\ isUuid(f.name)))
       => IF StoredBefore(j) = {}
          THEN f.calls = ScopedLookup(f)
          ELSE LET first == rvLog[Least(StoredBefore(j))]
               IN /\ f.calls = <<>>
                  /\ f.thrown = ""
                  /\ f.value = first.value
                  /\ Len(first.calls) = 1

\* C29: project and workflow-state cache keys hold the team: a name
\* resolved under one team is looked up again under another team and never
\* served from the first team's entry; workflow-state names of one team that
\* differ only in letter case share one entry; and what the cache serves is
\* the value the first lookup of that key returned.
C29_CacheKeysAreScoped == \A j \in DOMAIN rvLog : ScopedKey(j)

C29_Witness ==
    /\ Len(rvLog) = 2
    /\ rvLog[1].op = "state" /\ rvLog[2].op = "state"
    /\ rvLog[1].name = <<"todo">> /\ rvLog[2].name = <<"todo">>
    /\ rvLog[1].teamId = <<"uuid-team-eng">>
    /\ rvLog[2].teamId = <<"uuid-team-ops">>
    /\ rvLog[1].value = <<"uuid-state-todo">>
    /\ Len(rvLog[2].calls) = 1
    /\ rvLog[2].value = <<"uuid-state-todo-ops">>

\* the story of the log entry had its team looked up and the remote service
\* answered with the team
TeamLookedUp(e) ==
    /\ CallsOf(e, "teams") # <<>>
    /\ e.fault # "teams"
    /\ TeamKnown(e)

\* an earlier story of the same importStories call looked the team of
\* storyLog[k] up
TeamResolvedBefore(k) ==
    \E i \in 1..(k - 1) :
      /\ storyLog[i].run = storyLog[k].run
      /\ TeamNameOf(storyLog[i]) = TeamNameOf(storyLog[k])
      /\ TeamLookedUp(storyLog[i])

\* the team of storyLog[k] is looked up exactly when no earlier story of the
\* same call has looked it up, whatever the calls before have resolved
OneTeamLookupPerRun(k) ==
    LET e == storyLog[k]
        name == TeamNameOf(e)
    IN IF name = NULL \/ isUuid(name) \/ TeamResolvedBefore(k)
       THEN CallsOf(e, "teams") = <<>>
       ELSE CallsOf(e, "teams") = <<Call("teams", name)>>

\* exportStories looks its team up itself
ExportLooksTeamUp ==
    exPhase \notin {"off", "call"}
      => SelectSeq(exCalls, LAMBDA c : c.op = "teams")
           = <<Call("teams", exOptions.team)>>

\* C30: one Resolver serves a whole importStories call and no other call:
\* over all stories of all documents of one call a team name is looked up
\* once and then served from the cache, and the next importStories call or
\* an exportStories call looks the name up again.
C30_OneResolverPerRun ==
    /\ \A k \in DOMAIN storyLog : OneTeamLookupPerRun(k)
    /\ ExportLooksTeamUp

C30_Witness ==
    /\ runs = 2
    /\ pc = "done"
    /\ exPhase = "fetched"
    /\ \E i, j, k \in DOMAIN storyLog :
         /\ storyLog[i].run = 1 /\ storyLog[i].file = Paths[1]
         /\ storyLog[j].run = 1 /\ storyLog[j].file = Paths[2]
         /\ storyLog[k].run = 2
         /\ TeamNameOf(storyLog[i]) = <<"Eng">>
         /\ TeamNameOf(storyLog[j]) = <<"Eng">>
         /\ TeamNameOf(storyLog[k]) = <<"Eng">>
         /\ CallsOf(storyLog[i], "teams") = <<Call("teams", <<"Eng">>)>>
         /\ storyLog[i].fault = "none"
         /\ CallsOf(storyLog[j], "teams") = <<>>
         /\ CallsOf(storyLog[k], "teams") = <<Call("teams", <<"Eng">>)>>

\* the project the frontmatter of the exported document names: NULL when it
\* names none
ExportedProject ==
    parseMarkdownFile(exWrites[1].text, exOptions.outputPath).frontmatter.project

\* the remote query was restricted to the project of that name
QueryRestrictedTo(project) ==
    /\ exFilter.project # NULL
    /\ \E t \in {<<"uuid-team-eng">>, <<"uuid-team-ops">>} :
         exFilter.project
           = firstNode(RemoteDirectory.projects, t \o <<":">> \o project)

\* C31: when the frontmatter of an exported document names a project, the
\* remote query that produced the stories was restricted to that project and
\* every exported story belongs to it.
C31_FrontmatterFromFilterUsed ==
    (exPhase = "returned" /\ ExportedProject # NULL)
      => /\ QueryRestrictedTo(ExportedProject)
         /\ \A k \in DOMAIN exIssues : exIssues[k].project = ExportedProject

\* the keys of the metadata block in their fixed order
MetadataKeys ==
    <<KEY_ID, KEY_URL, KEY_PRIORITY, KEY_LABELS, KEY_ESTIMATE, KEY_ASSIGNEE,
      KEY_STATUS>>

\* the value of the story that goes under a key of the metadata block
FieldOf(story, key) ==
    CASE key = KEY_ID -> story.linearId
      [] key = KEY_URL -> story.linearUrl
      [] key = KEY_PRIORITY -> story.priority
      [] key = KEY_LABELS -> story.labels
      [] key = KEY_ESTIMATE -> story.estimate
      [] key = KEY_ASSIGNEE -> story.assignee
      [] key = KEY_STATUS -> story.status

\* the keys whose value the story has, in the fixed order
PresentKeys(story) ==
    SelectSeq(MetadataKeys, LAMBDA key : FieldOf(story, key) # <<>>)

\* the lines of the text before its first heading
Preamble(lines, idx) ==
    SubSeq(lines, 1, IF idx = <<>> THEN Len(lines) ELSE idx[1] - 1)

\* the lines before the first heading are a frontmatter block naming exactly
\* the fields given, the project first, or hold no delimiter when none is
FrontmatterEmitted(pre, frontmatter) ==
    LET given == SelectSeq(<<KEY_PROJECT, KEY_TEAM>>,
                   LAMBDA key :
                     /\ frontmatter.present
                     /\ (IF key = KEY_PROJECT THEN frontmatter.project
                                               ELSE frontmatter.team) # NULL)
    IN IF given = <<>>
       THEN \A k \in DOMAIN pre : pre[k] # <<FM_DELIM>>
       ELSE /\ Len(pre) >= Len(given) + 2
            /\ pre[1] = <<FM_DELIM>>
            /\ \A j \in DOMAIN given : pre[1 + j][1] = given[j]
            /\ pre[Len(given) + 2] = <<FM_DELIM>>
            /\ \A k \in (Len(given) + 3)..Len(pre) : pre[k] # <<FM_DELIM>>

\* the lines after a story's heading hold one metadata block, right after
\* the blank line, with one line per key the story has, in the fixed order,
\* or no fence at all when the story has no such key
MetadataEmitted(rest, keys) ==
    IF keys = <<>>
    THEN \A k \in DOMAIN rest : rest[k] \notin {YAML_OPEN, YAML_CLOSE}
    ELSE /\ Len(rest) >= Len(keys) + 3
         /\ rest[2] = YAML_OPEN
         /\ \A j \in DOMAIN keys : rest[2 + j][1] = keys[j]
         /\ rest[Len(keys) + 3] = YAML_CLOSE
         /\ \A k \in (Len(keys) + 4)..Len(rest) :
               rest[k] \notin {YAML_OPEN, YAML_CLOSE}

\* the lines are what the serializer is to emit for the stories and the
\* frontmatter
EmittedFor(lines, idx, stories, frontmatter) ==
    /\ FrontmatterEmitted(Preamble(lines, idx), frontmatter)
    /\ Len(idx) = Len(stories)
    /\ \A k \in DOMAIN stories :
         k <= Len(idx)
           => /\ lines[idx[k]] = H2_PREFIX \o stories[k].title
              /\ MetadataEmitted(SectionRest(lines, idx, k),
                                 PresentKeys(stories[k]))

EmittedAsSerialized(lines) ==
    EmittedFor(lines, BoundaryIndexes(lines), szStories, szFrontmatter)

\* C32: the serialized text has a frontmatter block exactly when a project
\* or a team is given; it has one heading per story, in input order; and
\* under each heading a metadata block exactly when the story has a
\* metadata field, whose lines are the fields the story has, in the order
\* linear_id, linear_url, priority, labels, estimate, assignee, status.
C32_SerializerEmitsPresentFieldsInOrder ==
    szPhase \in {"serialized", "parsed"}
      => EmittedAsSerialized(SplitLines(szText))

C32_Witness ==
    /\ szPhase = "serialized"
    /\ Len(szStories) = 2
    /\ szStories[1].title = <<"E">>
    /\ szStories[2].title = <<"A">>
    /\ szFrontmatter.present
    /\ szFrontmatter.project = NULL
    /\ szFrontmatter.team = <<"Eng">>
    /\ EmittedAsSerialized(SplitLines(szText))

\* the results of the list that have the action
ResultsWith(list, action) == SelectSeq(list, LAMBDA r : r.action = action)

\* the counts of the summary are those of its own result list
CountsMatch(s) ==
    /\ s.total = Len(s.results)
    /\ s.total = s.created + s.updated + s.failed + s.skipped
    /\ s.created = Len(ResultsWith(s.results, "created"))
    /\ s.updated = Len(ResultsWith(s.results, "updated"))
    /\ s.failed = Len(ResultsWith(s.results, "failed"))
    /\ s.skipped = Len(ResultsWith(s.results, "skipped"))

\* C33: the summary importStories returns holds the final result list, its
\* total is the length of that list and the sum of the four counts, and
\* each count is the number of results with that action; before the return
\* there is no summary.
C33_SummaryCountsMatchResults ==
    /\ CountsMatch(summary)
    /\ pc = "done" => summary.results = results
    /\ pc # "done" => summary = NoSummary

C33_Witness ==
    /\ pc = "done"
    /\ summary.created = 2
    /\ summary.failed = 1
    /\ summary.total = 3
    /\ summary.results = results

\* the stories of the document of a log entry as it is persisted now
PersistedStories(e) == parseMarkdownFile(files[e.file], e.file).stories

\* the titles of the stories of the first document are all different
TitlesDiffer ==
    \A i, j \in DOMAIN InitialStories(1) :
       InitialStories(1)[i].title = InitialStories(1)[j].title => i = j

\* the persisted story of the entry has the identifier and the url
RecordedAs(after, e, linearId, linearUrl) ==
    /\ e.index \in DOMAIN after
    /\ after[e.index].linearId = linearId
    /\ after[e.index].linearUrl = linearUrl

\* C34: when an import with write-back has returned, every story that had
\* an identifier before the run has the same identifier and url in the
\* persisted document, whatever other stories of the document were created.
C34_RecordedIdentifierNeverChanged ==
    pc = "done"
      => \A k \in DOMAIN storyLog :
            storyLog[k].story.linearId # NULL
              => RecordedAs(PersistedStories(storyLog[k]), storyLog[k],
                            storyLog[k].story.linearId,
                            storyLog[k].story.linearUrl)

\* the persisted stories that carry the identifier
ReferencedBy(after, linearId) ==
    {k \in DOMAIN after : after[k].linearId = linearId}

\* C35: when a non-dry-run import with write-back has returned, every
\* created story has in the persisted document the identifier and the url
\* its create call returned, and no other story of the document carries
\* that identifier.
C35_EveryCreatedRecordIsRecorded ==
    (pc = "done" /\ ~options.dryRun /\ ~options.noWriteBack)
      => \A k \in DOMAIN storyLog :
            storyLog[k].action = "created"
              => /\ RecordedAs(PersistedStories(storyLog[k]), storyLog[k],
                               storyLog[k].linearId, storyLog[k].linearUrl)
                 /\ ReferencedBy(PersistedStories(storyLog[k]),
                                 storyLog[k].linearId) = {storyLog[k].index}

\* the fields of a story other than the identifier and the url
SameOtherFields(a, b) ==
    /\ a.title = b.title
    /\ a.priority = b.priority
    /\ a.labels = b.labels
    /\ a.estimate = b.estimate
    /\ a.assignee = b.assignee
    /\ a.status = b.status
    /\ a.body = b.body
    /\ a.project = b.project
    /\ a.team = b.team

\* after is before with the update applied to the stories of its title
UpdateApplied(before, after, update) ==
    /\ after.error = "none"
    /\ Len(after.stories) = Len(before.stories)
    /\ \A k \in DOMAIN before.stories :
         k <= Len(after.stories)
           => /\ SameOtherFields(after.stories[k], before.stories[k])
              /\ IF before.stories[k].title = update.title
                 THEN /\ after.stories[k].linearId = update.linearId
                      /\ after.stories[k].linearUrl = update.linearUrl
                 ELSE /\ after.stories[k].linearId
                           = before.stories[k].linearId
                      /\ after.stories[k].linearUrl
                           = before.stories[k].linearUrl

\* the parser accepts the text and the update names one of its stories
UpdateOfParsedStory(before, updates) ==
    /\ before.error = "none"
    /\ Len(updates) = 1
    /\ \E k \in DOMAIN before.stories :
         before.stories[k].title = updates[1].title

\* the parse of the written-back text against the parse of the original
ParsesAsUpdated(before, after, updates) ==
    UpdateOfParsedStory(before, updates)
      => UpdateApplied(before, after, updates[1])

\* C36: for a text the parser accepts and an update for the title of one
\* of its stories, the parse of the text writeBackIds returns has the same
\* stories in the same order, the updated story with the identifier and url
\* of the update and every other field of every story as in the parse of
\* the original text.
C36_EditorAndParserAgree ==
    wbPhase = "returned"
      => ParsesAsUpdated(parseMarkdownFile(wbContent, Paths[1]),
                         parseMarkdownFile(wbResult, Paths[1]), wbUpdates)

\* C37: writeBackIds applied with the same updates to the text it returned
\* returns that text unchanged: a story that had a metadata fence and a story
\* that got one inserted both keep one fence and one linear_id and one
\* linear_url line.
C37_WriteBackIsIdempotent ==
    wbPhase = "returned"
      => writeBackIds("a.md", wbResult, wbUpdates) = wbResult

C37_Witness ==
    /\ wbPhase = "returned"
    /\ wbContent = Document(NULL, <<"plain", "noids">>)
    /\ wbUpdates = <<WbUpdate("A", 7), WbUpdate("B", 8)>>
    /\ wbResult # wbContent
    /\ writeBackIds("a.md", wbResult, wbUpdates) = wbResult

\* the create and update calls of a log entry
MutatingCalls(e) ==
    SelectSeq(e.calls, LAMBDA c : c.op \in {"createIssue", "updateIssue"})

\* the team of the entry's story resolved, and its project when it has one
PlacementResolved(e) ==
    /\ TeamKnown(e)
    /\ ~(e.fault = "teams" /\ CallsOf(e, "teams") # <<>>)
    /\ ProjectKnown(e)

\* the identifier the remote service has for the project of the entry's
\* story: NULL when the story has no project
ResolvedProjectOf(e) ==
    IF ProjectNameOf(e) = NULL THEN NULL
    ELSE cacheGet(RemoteDirectory.projects,
                  cacheGet(RemoteDirectory.teams, TeamNameOf(e))
                    \o <<":">> \o ProjectNameOf(e))

\* a story is created or updated only when its placement resolved, by the
\* last call issued for it, and is failed without such a call otherwise
MutatesOnlyWhenPlaced(e) ==
    /\ MutatingCalls(e) # <<>>
         => /\ PlacementResolved(e)
            /\ Len(MutatingCalls(e)) = 1
            /\ e.calls[Len(e.calls)] = MutatingCalls(e)[1]
    /\ ~PlacementResolved(e)
         => /\ MutatingCalls(e) = <<>>
            /\ e.action = "failed"
    /\ \A k \in DOMAIN e.calls :
         e.calls[k].op = "createIssue"
           => /\ e.calls[k].teamId
                   = cacheGet(RemoteDirectory.teams, TeamNameOf(e))
              /\ e.calls[k].teamId # NULL
              /\ e.calls[k].projectId = ResolvedProjectOf(e)

\* C38: a create or update call is issued for a story only after its team
\* and, when a project name applies, its project were resolved; a story
\* whose team or project resolution fails is failed without a create or
\* update call; and a create call carries the identifier resolved for the
\* story's effective team name.
C38_NoMutationWithoutPlacement ==
    \A k \in DOMAIN storyLog : MutatesOnlyWhenPlaced(storyLog[k])

C38_Witness ==
    /\ pc = "done"
    /\ Len(storyLog) >= 2
    /\ storyLog[1].story.team = <<"Eng">>
    /\ options.team = <<"Ops">>
    /\ ProjectNameOf(storyLog[1]) = <<"Q1">>
    /\ storyLog[1].action = "created"
    /\ MutatingCalls(storyLog[1])[1].teamId = <<"uuid-team-eng">>
    /\ MutatingCalls(storyLog[1])[1].projectId = <<"uuid-proj-q1">>
    /\ ~PlacementResolved(storyLog[Len(storyLog)])
    /\ storyLog[Len(storyLog)].action = "failed"

====
